---- MODULE Spec2Model ----
(***************************************************************************)
(* TrustLoop: the dashboard's gap -> draft -> approve/dismiss -> publish   *)
(* state machine, its lineage ledger and its localStorage session store    *)
(* (specification Spec), the server action analyzeTicket with its calls    *)
(* to the language model (specification SpecAnalyze), and the retrieval    *)
(* functions of excel-parser: the term extractor (SpecExtract) and the     *)
(* two scored searches (SpecSearch); parseJsonSafe of lib/json (SpecJson); *)
(* Approve & Publish over the draft texts it may meet (SpecPublish); and   *)
(* the dashboard under the assumption that calls settle (SpecLive).        *)
(*                                                                         *)
(* The dashboard is one React component.  Its state is the useState cells  *)
(* and refs of TrustLoopDashboard; an action of the model is one event     *)
(* handler, one resumption of an async handler after an await, or one      *)
(* timer/effect callback, together with the re-render and the effects it   *)
(* triggers (the persist effect runs after every render that changed one   *)
(* of its three dependencies).                                             *)
(*                                                                         *)
(* Conventions.  A nullable cell is a sequence of length <= 1: Null is     *)
(* <<>> and Some(v) is <<v>>.  A text is a sequence of symbols; the        *)
(* symbols "Title:" and "Body:" stand for the draft markers, "\n" and " "  *)
(* are white space, every other symbol is one visible character.           *)
(* Fields and variables marked "ghost" are not program state: they record  *)
(* history (which request a reply answers, which ticket a draft came from) so      *)
(* that properties about it can be stated.                                 *)
(***************************************************************************)
EXTENDS Integers, Sequences, FiniteSets, TLC

\* ------------------------------------------------------------------ bounds
\* clicks on Analyze now, Play call and Simulate batch, all together
MaxStarts == 2
\* largest value of the millisecond clock Date.now()
MaxClock == 1
\* longest text handed to extractSearchTerms, in characters
MaxTextLen == 5
\* longest term list and largest limit handed to the search functions
MaxTerms == 3
MaxLimit == 3

\* ------------------------------------------------------- values and helpers
Null == <<>>
Some(v) == <<v>>
IsNull(o) == o = <<>>
Val(o) == o[1]

Last(s) == s[Len(s)]
\* a cell of a sheet row that may be missing: x ?? ""
OrEmpty(cell) == IF IsNull(cell) THEN <<>> ELSE Val(cell)

\* the ticket queue handed to the component (allTickets, no custom tickets)
allTickets == <<"T1", "T2">>
TicketIds == {allTickets[i] : i \in 1..Len(allTickets)}

\* toRun = allTickets.slice(0, 3)
BatchSize == 3
toRun == SubSeq(allTickets, 1, IF Len(allTickets) < BatchSize THEN Len(allTickets) ELSE BatchSize)

\* `KB-${Date.now()}`
KbId(t) == [prefix |-> "KB-", n |-> t]
Undefined == [undefined |-> TRUE]

\* --------------------------------------------- draft text: Title: / Body:
IsSpace(c) == c \in {" ", "\n"}
IsTitleMarker(c) == c \in {"Title:", "title:", "TITLE:"}
IsBodyMarker(c) == c \in {"Body:", "body:", "BODY:"}

\* String.prototype.trim
RECURSIVE TrimLeft(_)
TrimLeft(s) == IF s # <<>> /\ IsSpace(Head(s)) THEN TrimLeft(Tail(s)) ELSE s
RECURSIVE TrimRight(_)
TrimRight(s) ==
  IF s # <<>> /\ IsSpace(s[Len(s)]) THEN TrimRight(SubSeq(s, 1, Len(s) - 1)) ELSE s
Trim(s) == TrimRight(TrimLeft(s))

\* String.prototype.slice(0, n)
Slice0(s, n) == SubSeq(s, 1, IF Len(s) < n THEN Len(s) ELSE n)

\* /Title:\s*(.+?)(?:\n|$)/i anchored at the marker at position i: \s* is
\* greedy, so the capture starts at the last position j reachable over
\* white space from i whose symbol is not a newline, and runs lazily to the
\* next newline or the end.  0 when the marker at i cannot match.
TitleStart(d, i) ==
  LET ok == {j \in (i + 1)..Len(d) :
               /\ d[j] # "\n"
               /\ \A k \in (i + 1)..(j - 1) : IsSpace(d[k])}
  IN IF ok = {} THEN 0 ELSE CHOOSE j \in ok : \A k \in ok : k <= j
TitleEnd(d, j) ==
  LET nl == {k \in j..Len(d) : d[k] = "\n"}
  IN IF nl = {} THEN Len(d) ELSE (CHOOSE k \in nl : \A m \in nl : k <= m) - 1
\* the capture group of the first match, or Null
titleMatch(d) ==
  LET at == {i \in 1..Len(d) : IsTitleMarker(d[i]) /\ TitleStart(d, i) # 0}
  IN IF at = {} THEN Null
     ELSE LET i == CHOOSE a \in at : \A b \in at : a <= b
              j == TitleStart(d, i)
          IN Some(SubSeq(d, j, TitleEnd(d, j)))
\* /Body:\s*([\s\S]*)/i
bodyMatch(d) ==
  LET at == {i \in 1..Len(d) : IsBodyMarker(d[i])}
  IN IF at = {} THEN Null
     ELSE LET i == CHOOSE a \in at : \A b \in at : a <= b
          IN Some(TrimLeft(SubSeq(d, i + 1, Len(d))))

PlaceholderTitle == <<"New knowledge article">>
SnippetLen == 200
DraftTitle(d) == IF IsNull(titleMatch(d)) THEN PlaceholderTitle ELSE Trim(Val(titleMatch(d)))
DraftBody(d) == IF IsNull(bodyMatch(d)) THEN d ELSE Trim(Val(bodyMatch(d)))

\* ------------------------------------------------ records of the session
\* variant: the proposal of the draft is not logged
GapEvents_gapOnly(ticketId, t) ==
  << [type |-> "gap_detected", ticketId |-> ticketId, kbId |-> Undefined, label |-> "Knowledge gap detected", ts |-> t] >>

\* variant: the two events in the opposite order
GapEvents_swapped(ticketId, t) ==
  << [type |-> "draft_proposed", ticketId |-> ticketId, kbId |-> Undefined, label |-> "Draft article proposed", ts |-> t],
     [type |-> "gap_detected", ticketId |-> ticketId, kbId |-> Undefined, label |-> "Knowledge gap detected", ts |-> t] >>

\* the two events appended when a result carries a draft
GapEvents(ticketId, t) ==
  << [type |-> "gap_detected", ticketId |-> ticketId, kbId |-> Undefined, label |-> "Knowledge gap detected", ts |-> t],
     [type |-> "draft_proposed", ticketId |-> ticketId, kbId |-> Undefined, label |-> "Draft article proposed", ts |-> t] >>

\* variant: the dismissal logged as a proposal
DismissedEvent_asProposal(ticketId, t) ==
  [type |-> "draft_proposed", ticketId |-> ticketId, kbId |-> Undefined, label |-> "Draft dismissed (not published)", ts |-> t]

\* the event appended by Dismiss draft
DismissedEvent(ticketId, t) ==
  [type |-> "gap_detected", ticketId |-> ticketId, kbId |-> Undefined, label |-> "Draft dismissed (not published)", ts |-> t]

\* the three records appended by Approve & Publish
NewArticle(kbId, title, bodyFull, t, ticketId) ==
  [id |-> kbId, title |-> title, body |-> bodyFull, publishedAt |-> t, ticketId |-> ticketId]
\* variant: the event built with an id of its own (a second `KB-${Date.now()}`)
ApprovedEvent_ownId(ticketId, kbId, t) ==
  [type |-> "approved", ticketId |-> ticketId, kbId |-> KbId(kbId.n + 1), label |-> "Article approved & published", ts |-> t]

ApprovedEvent(ticketId, kbId, t) ==
  [type |-> "approved", ticketId |-> ticketId, kbId |-> kbId, label |-> "Article approved & published", ts |-> t]
\* variant: the lineage row built with an id of its own (a second `KB-${Date.now()}`)
LineageRow_ownId(kbId, ticketId, bodyFull) ==
  [KB_Article_ID |-> KbId(kbId.n + 1), Source_Type |-> "Ticket", Source_ID |-> ticketId, Evidence_Snippet |-> Slice0(bodyFull, SnippetLen)]

LineageRow(kbId, ticketId, bodyFull) ==
  [KB_Article_ID |-> kbId, Source_Type |-> "Ticket", Source_ID |-> ticketId, Evidence_Snippet |-> Slice0(bodyFull, SnippetLen)]

\* draft texts the language model may return (new_knowledge_draft, trimmed)
DraftMarked == <<"Title:", " ", "V", "\n", "\n", "Body:", " ", "X", "Y">>
Drafts == {DraftMarked}

\* AnalyzeTicketResult as the dashboard reads it: the draft and the error
\* field.  Every error result carries a null draft.
Results ==
  {[new_knowledge_draft |-> Null, error |-> TRUE],
   [new_knowledge_draft |-> Null, error |-> FALSE]}
  \cup {[new_knowledge_draft |-> Some(d), error |-> FALSE] : d \in Drafts}

\* ------------------------------------------------------------------- state
VARIABLES
  phase,              \* "mount": first render done, effects not yet run;
                      \* "hydrating": the hydration effect has called the three
                      \* setters, re-render pending; "ready": event handlers run
  pendingHydration,   \* the lists passed to the setters by the hydration effect
  selectedTicket,     \* Ticket_Number of the selected ticket
  isPlaying,
  analysis,           \* nullable AnalyzeTicketResult on display
  analyzing,
  newKnowledgeDraft,  \* nullable draft text
  publishedArticles,
  learningLog,
  sessionLineage,
  stored,             \* localStorage[STORAGE_KEY]
  now,                \* the value Date.now() returned last
  inflight,           \* analyzeTicket calls awaiting their reply
  calls,              \* playCall invocations: awaiting /api/tts, or the
                      \* timer / audio that will call onCallEnd
  audioRef,           \* nullable id of the call whose Audio is in audioRef
  batchRunning,
  batchResult,        \* nullable {total, gaps, fromKb}
  batch,              \* nullable locals of the running runBatchSimulation
  nextReq,            \* ghost: analyses started so far by Analyze now / call end
  nextCall,           \* ghost: playCall invocations so far
  starts,             \* ghost: clicks on Analyze now, Play call, Simulate batch so far
  draftOrigin,        \* ghost: nullable ticket id of the analysis whose draft is pending
  appliedMax,         \* ghost: largest request number whose reply was applied
  awaiting,           \* ghost: a different ticket was selected and no analysis
                      \* of it has completed since
  hydrations          \* ghost: runs of the hydration effect

uiVars == <<selectedTicket, isPlaying, analysis, analyzing, newKnowledgeDraft>>
sessionVars == <<publishedArticles, learningLog, sessionLineage>>
asyncVars == <<inflight, calls, audioRef, batchRunning, batchResult, batch>>
ghostVars == <<nextReq, nextCall, starts, draftOrigin, appliedMax, awaiting, hydrations>>
dashVars == <<phase, pendingHydration, uiVars, sessionVars, stored, now, asyncVars, ghostVars>>

\* One invocation of the server action analyzeTicket (its locals and the
\* calls it makes to the language model), studied on its own.
VARIABLES
  apiKey,             \* process.env.NEXT_PUBLIC_GEMINI_API_KEY is set
  learnedArticles,    \* the learnedArticles argument
  relevantArticles,   \* what searchKnowledgeArticles(searchTerms, 6) returned
  relevantScripts,    \* what searchScripts(searchTerms, 3) returned
  allArticles,        \* what loadKnowledgeArticles() returns: the whole sheet
  prompt,             \* nullable: the prompt of the solve call, as its context
                      \* sections and the scripts it lists
  azPc,               \* "idle": not called yet; "stage1": awaiting the solve call;
                      \* "stage2": awaiting Promise.all; "done": returned or threw
  parsed,             \* nullable: what lines 151-162 came to, once the solve call
                      \* settled: the call rejected, parseJsonSafe threw, or the
                      \* value it returned (null, or the members read from it)
  llmCalls,           \* the generateContent calls issued so far, in order
  azOutcome           \* nullable: how the invocation ended (returned value or throw)

azInputs == <<apiKey, learnedArticles, relevantArticles, relevantScripts, allArticles>>
azVars == <<azInputs, prompt, azPc, parsed, llmCalls, azOutcome>>

\* The retrieval functions of excel-parser, each studied on its own: their
\* arguments, the sheets they read, and what they returned.
VARIABLES
  issueText,          \* the text argument of extractSearchTerms
  extracted,          \* nullable: what extractSearchTerms returned
  searchTerms,        \* the searchTerms argument of the two search functions
  limit,              \* their limit argument
  articles,           \* loadKnowledgeArticles(): the Knowledge_Articles sheet
  scripts,            \* loadScripts(): the Scripts_Master sheet
  kbSearch,           \* nullable: `scored` after the sort of searchKnowledgeArticles,
                      \* and the rows it returned
  scriptSearch        \* nullable: the same of searchScripts

\* parseJsonSafe of lib/json, studied on its own.
VARIABLES
  rawText,            \* the raw argument of parseJsonSafe
  jsonOutcome         \* nullable: how parseJsonSafe ended, and the text it
                      \* handed to the second JSON.parse when the first threw

jsonVars == <<rawText, jsonOutcome>>
libVars == <<issueText, extracted, searchTerms, limit, articles, scripts, kbSearch, scriptSearch,
             jsonVars>>
vars == <<dashVars, azVars, libVars>>
JsonIdle == rawText = <<>> /\ jsonOutcome = <<>>

\* ------------------------------------------------------------ session store
\* The value under STORAGE_KEY: absent, a text JSON.parse rejects, or the
\* JSON of an object whose three fields are arrays or something else.
Arr(items) == [isArray |-> TRUE, items |-> items]
NotArr == [isArray |-> FALSE, items |-> <<>>]
Absent == [kind |-> "absent"]
Unparsable == [kind |-> "unparsable"]
Json(p, l, g) == [kind |-> "json", published |-> p, learning |-> l, lineage |-> g]

SessionState(p, l, g) == [published |-> p, learning |-> l, lineage |-> g]
EmptySession == SessionState(<<>>, <<>>, <<>>)
Memory == SessionState(publishedArticles, learningLog, sessionLineage)

\* Array.isArray(x) ? x : []
ArrayOrEmpty(f) == IF f.isArray THEN f.items ELSE <<>>

\* variant: the lineage field is not read back
loadPersistedState_noLineage(raw) ==
  IF raw.kind # "json" THEN EmptySession
  ELSE SessionState(ArrayOrEmpty(raw.published), ArrayOrEmpty(raw.learning), <<>>)

loadPersistedState(raw) ==
  IF raw.kind # "json" THEN EmptySession
  ELSE SessionState(ArrayOrEmpty(raw.published), ArrayOrEmpty(raw.learning), ArrayOrEmpty(raw.lineage))

\* variant: the lineage list left out of the stored object
savePersistedState_noLineage(p, l, g, old, ok) ==
  IF ok THEN [kind |-> "json", published |-> Arr(p), learning |-> Arr(l), lineage |-> NotArr] ELSE old

\* localStorage.setItem(STORAGE_KEY, JSON.stringify({published, learning, lineage}));
\* setItem may throw (quota), which is ignored: ok = FALSE leaves the store as it was.
savePersistedState(p, l, g, old, ok) ==
  IF ok THEN Json(Arr(p), Arr(l), Arr(g)) ELSE old

\* what a successful read of the store yields as a session state
StoredSession == loadPersistedState(stored)

\* variant: the persist effect without its all-empty early return
PersistEffect_noGuard(p, l, g, old, ok) == savePersistedState(p, l, g, old, ok)

\* The persist effect, run after a render with lists p, l, g: the store afterwards.
PersistEffect(p, l, g, old, ok) ==
  IF Len(p) = 0 /\ Len(l) = 0 /\ Len(g) = 0 THEN old
  ELSE savePersistedState(p, l, g, old, ok)

\* states a previous session can have left in the store
priorArticle == NewArticle(KbId(0), DraftTitle(DraftMarked), DraftBody(DraftMarked), 0, "T1")
priorLog == GapEvents("T1", 0) \o <<ApprovedEvent("T1", KbId(0), 0)>>
priorLineage == LineageRow(KbId(0), "T1", DraftBody(DraftMarked))
StoredAtStart ==
  { Absent, Unparsable,
    Json(Arr(<<priorArticle>>), Arr(priorLog), Arr(<<priorLineage>>)),
    Json(NotArr, NotArr, Arr(<<>>)) }

\* -------------------------------------------------------------------- Init
DashboardInit ==
  /\ phase = "mount"
  /\ pendingHydration = EmptySession
  /\ selectedTicket = allTickets[1]
  /\ isPlaying = FALSE
  /\ analysis = Null
  /\ analyzing = FALSE
  /\ newKnowledgeDraft = Null
  /\ publishedArticles = <<>>
  /\ learningLog = <<>>
  /\ sessionLineage = <<>>
  /\ stored \in StoredAtStart
  /\ now = 0
  /\ inflight = {}
  /\ calls = {}
  /\ audioRef = Null
  /\ batchRunning = FALSE
  /\ batchResult = Null
  /\ batch = Null
  /\ nextReq = 0
  /\ nextCall = 0
  /\ starts = 0
  /\ draftOrigin = Null
  /\ appliedMax = 0
  /\ awaiting = FALSE
  /\ hydrations = 0

\* analyzeTicket is not under study: its variables rest
AnalyzeIdle ==
  /\ apiKey = TRUE
  /\ learnedArticles = <<>>
  /\ relevantArticles = <<>>
  /\ relevantScripts = <<>>
  /\ allArticles = <<>>
  /\ prompt = Null
  /\ azPc = "idle"
  /\ parsed = Null
  /\ llmCalls = <<>>
  /\ azOutcome = Null

\* the retrieval functions are not under study: their variables rest
LibIdle ==
  /\ issueText = <<>>
  /\ extracted = Null
  /\ searchTerms = <<>>
  /\ limit = 0
  /\ articles = <<>>
  /\ scripts = <<>>
  /\ kbSearch = Null
  /\ scriptSearch = Null
  /\ JsonIdle

Init == DashboardInit /\ AnalyzeIdle /\ LibIdle

\* ------------------------------------------------------------ mount effects
\* variant: the hydration effect without its empty dependency list
HydrationDue_everyRender == phase \in {"mount", "ready"}

\* useEffect(..., []): the hydration effect runs after the first render only
HydrationDue == phase = "mount"

\* The effects of the first render, in declaration order: the hydration
\* effect reads the store and calls the three setters (taking effect at the
\* re-render), then the persist effect runs with the lists of the first render.
mountEffects ==
  /\ HydrationDue
  /\ phase' = "hydrating"
  /\ pendingHydration' = loadPersistedState(stored)
  /\ hydrations' = hydrations + 1
  /\ \E ok \in BOOLEAN :
       stored' = PersistEffect(publishedArticles, learningLog, sessionLineage, stored, ok)
  /\ UNCHANGED <<uiVars, sessionVars, now, asyncVars, nextReq, nextCall, starts, draftOrigin, appliedMax, awaiting>>
  /\ UNCHANGED <<azVars, libVars>>

\* The re-render with the hydrated lists; the three arrays are new, so the
\* persist effect runs again.
hydratedRender ==
  /\ phase = "hydrating"
  /\ phase' = "ready"
  /\ publishedArticles' = pendingHydration.published
  /\ learningLog' = pendingHydration.learning
  /\ sessionLineage' = pendingHydration.lineage
  /\ \E ok \in BOOLEAN :
       stored' = PersistEffect(publishedArticles', learningLog', sessionLineage', stored, ok)
  /\ UNCHANGED <<pendingHydration, uiVars, now, asyncVars, nextReq, nextCall, starts, draftOrigin, appliedMax, awaiting, hydrations>>
  /\ UNCHANGED <<azVars, libVars>>

\* Date.now(): the clock never runs backwards; now is the last value read,
\* and a handler that reads the clock sees that value or a later one
ClockReads == now..MaxClock

\* ------------------------------------------------------- shared fragments
\* variant: the functional update forgets the previous entries
Appended_dropPrev(prev, items) == items

\* setX((prev) => [...prev, ...items])
Appended(prev, items) == prev \o items

\* publishedArticles.map((a) => ({ id, title, body, ticketId }))
Learned(pub) ==
  [i \in 1..Len(pub) |-> [id |-> pub[i].id, title |-> pub[i].title, body |-> pub[i].body, ticketId |-> pub[i].ticketId]]

\* an analyzeTicket(ticketId, transcript, learned) call in flight; req and
\* pubLen (the number of published articles when it was issued) are ghost
Request(req, kind, ticketId, learned) ==
  [req |-> req, kind |-> kind, ticketId |-> ticketId, learned |-> learned, pubLen |-> Len(publishedArticles)]

\* variant: issuing a call cancels the calls in flight
Issued_cancelPrior(q) == {q}

\* await analyzeTicket(...): the call joins those in flight; nothing is cancelled
Issued(q) == inflight \cup {q}

\* the result put on display; req and ticketId are ghost
Displayed(r, res) ==
  [new_knowledge_draft |-> res.new_knowledge_draft, error |-> res.error, req |-> r.req, ticketId |-> r.ticketId]

\* the render after a handler: the persist effect runs iff one of the three
\* lists was set (a new array), else the store stays
Rendered ==
  IF sessionVars' = sessionVars
  THEN UNCHANGED stored
  ELSE \E ok \in BOOLEAN :
         stored' = PersistEffect(publishedArticles', learningLog', sessionLineage', stored, ok)

\* stopCall: audioRef.current.pause() silences the Audio in audioRef for
\* good (its onended never fires); timers set by playCall are not cleared
StoppedCalls == {c \in calls : ~(c.stage = "audio" /\ audioRef = Some(c.id))}

\* ------------------------------------------------------------ ticket queue
\* onClick of a ticket of the queue
selectTicket(t) ==
  /\ phase = "ready"
  /\ selectedTicket' = t
  /\ analysis' = Null
  /\ newKnowledgeDraft' = Null
  /\ draftOrigin' = Null
  /\ calls' = StoppedCalls
  /\ isPlaying' = FALSE
  /\ awaiting' = IF t # selectedTicket THEN TRUE ELSE awaiting
  /\ UNCHANGED <<phase, pendingHydration, analyzing, sessionVars, stored, now>>
  /\ UNCHANGED <<inflight, audioRef, batchRunning, batchResult, batch>>
  /\ UNCHANGED <<nextReq, nextCall, starts, appliedMax, hydrations>>
  /\ UNCHANGED <<azVars, libVars>>

\* ------------------------------------------------------------- Analyze now
\* runAnalyzeNow up to its await (the button is disabled while analyzing)
runAnalyzeNow ==
  /\ phase = "ready"
  /\ ~analyzing
  /\ starts < MaxStarts
  /\ starts' = starts + 1
  /\ analyzing' = TRUE
  /\ analysis' = Null
  /\ newKnowledgeDraft' = Null
  /\ draftOrigin' = Null
  /\ nextReq' = nextReq + 1
  /\ inflight' = Issued(Request(nextReq + 1, "now", selectedTicket, Learned(publishedArticles)))
  /\ UNCHANGED <<phase, pendingHydration, selectedTicket, isPlaying, sessionVars, stored, now>>
  /\ UNCHANGED <<calls, audioRef, batchRunning, batchResult, batch>>
  /\ UNCHANGED <<nextCall, appliedMax, awaiting, hydrations>>
  /\ UNCHANGED <<azVars, libVars>>

\* runAnalyzeNow after its await, with the result res of request r
runAnalyzeNowResume(r, res) ==
  /\ r \in inflight
  /\ r.kind = "now"
  /\ inflight' = inflight \ {r}
  /\ analysis' = Some(Displayed(r, res))
  /\ IF ~IsNull(res.new_knowledge_draft)
     THEN /\ newKnowledgeDraft' = res.new_knowledge_draft
          /\ draftOrigin' = Some(r.ticketId)
          /\ \E t \in ClockReads :
               /\ now' = t
               /\ learningLog' = Appended(learningLog, GapEvents(r.ticketId, t))
     ELSE UNCHANGED <<newKnowledgeDraft, draftOrigin, learningLog, now>>
  /\ analyzing' = FALSE
  /\ UNCHANGED <<publishedArticles, sessionLineage>>
  /\ Rendered
  /\ appliedMax' = IF r.req > appliedMax THEN r.req ELSE appliedMax
  /\ awaiting' = IF r.ticketId = selectedTicket THEN FALSE ELSE awaiting
  /\ UNCHANGED <<phase, pendingHydration, selectedTicket, isPlaying>>
  /\ UNCHANGED <<calls, audioRef, batchRunning, batchResult, batch>>
  /\ UNCHANGED <<nextReq, nextCall, starts, hydrations>>
  /\ UNCHANGED <<azVars, libVars>>

\* ------------------------------------------------------------ call playback
\* playCall up to its await of fetch("/api/tts"); the callbacks it will
\* register close over this render's onCallEnd, hence over this render's
\* selectedTicket and publishedArticles
playCall ==
  /\ phase = "ready"
  /\ ~analyzing
  /\ ~isPlaying
  /\ starts < MaxStarts
  /\ starts' = starts + 1
  /\ nextCall' = nextCall + 1
  /\ calls' = StoppedCalls \cup
       {[id |-> nextCall + 1, stage |-> "fetch", ticketId |-> selectedTicket, learned |-> Learned(publishedArticles)]}
  /\ isPlaying' = FALSE
  /\ analysis' = Null
  /\ newKnowledgeDraft' = Null
  /\ draftOrigin' = Null
  /\ UNCHANGED <<phase, pendingHydration, selectedTicket, analyzing, sessionVars, stored, now>>
  /\ UNCHANGED <<inflight, audioRef, batchRunning, batchResult, batch>>
  /\ UNCHANGED <<nextReq, appliedMax, awaiting, hydrations>>
  /\ UNCHANGED <<azVars, libVars>>

\* playCall after the fetch: "ok" plays the audio (onended will end the
\* call); "notok" (!res.ok) and "throw" (catch) set a timer instead
ttsSettled(c, outcome) ==
  /\ c \in calls
  /\ c.stage = "fetch"
  /\ calls' = (calls \ {c}) \cup {[c EXCEPT !.stage = IF outcome = "ok" THEN "audio" ELSE "timer"]}
  /\ audioRef' = IF outcome = "ok" THEN Some(c.id) ELSE audioRef
  /\ isPlaying' = TRUE
  /\ UNCHANGED <<phase, pendingHydration, selectedTicket, analysis, analyzing, newKnowledgeDraft, sessionVars, stored, now>>
  /\ UNCHANGED <<inflight, batchRunning, batchResult, batch>>
  /\ UNCHANGED <<nextReq, nextCall, starts, draftOrigin, appliedMax, awaiting, hydrations>>
  /\ UNCHANGED <<azVars, libVars>>

\* the "End call" button (the Play call button while isPlaying)
stopCall ==
  /\ phase = "ready"
  /\ ~analyzing
  /\ isPlaying
  /\ calls' = StoppedCalls
  /\ isPlaying' = FALSE
  /\ UNCHANGED <<phase, pendingHydration, selectedTicket, analysis, analyzing, newKnowledgeDraft, sessionVars, stored, now>>
  /\ UNCHANGED <<inflight, audioRef, batchRunning, batchResult, batch>>
  /\ UNCHANGED <<nextReq, nextCall, starts, draftOrigin, appliedMax, awaiting, hydrations>>
  /\ UNCHANGED <<azVars, libVars>>

\* the timer fires or the audio ends: setIsPlaying(false); onCallEnd() up to
\* its await, run with the ticket and the articles of the playCall render
onCallEnd(c) ==
  /\ c \in calls
  /\ c.stage \in {"timer", "audio"}
  /\ calls' = calls \ {c}
  /\ isPlaying' = FALSE
  /\ analyzing' = TRUE
  /\ nextReq' = nextReq + 1
  /\ inflight' = Issued(Request(nextReq + 1, "callEnd", c.ticketId, c.learned))
  /\ UNCHANGED <<phase, pendingHydration, selectedTicket, analysis, newKnowledgeDraft, sessionVars, stored, now>>
  /\ UNCHANGED <<audioRef, batchRunning, batchResult, batch>>
  /\ UNCHANGED <<nextCall, starts, draftOrigin, appliedMax, awaiting, hydrations>>
  /\ UNCHANGED <<azVars, libVars>>

\* onCallEnd after its await
onCallEndResume(r, res) ==
  /\ r \in inflight
  /\ r.kind = "callEnd"
  /\ inflight' = inflight \ {r}
  /\ analysis' = Some(Displayed(r, res))
  /\ IF ~IsNull(res.new_knowledge_draft)
     THEN /\ newKnowledgeDraft' = res.new_knowledge_draft
          /\ draftOrigin' = Some(r.ticketId)
          /\ \E t \in ClockReads :
               /\ now' = t
               /\ learningLog' = Appended(learningLog, GapEvents(r.ticketId, t))
     ELSE UNCHANGED <<newKnowledgeDraft, draftOrigin, learningLog, now>>
  /\ analyzing' = FALSE
  /\ UNCHANGED <<publishedArticles, sessionLineage>>
  /\ Rendered
  /\ appliedMax' = IF r.req > appliedMax THEN r.req ELSE appliedMax
  /\ awaiting' = IF r.ticketId = selectedTicket THEN FALSE ELSE awaiting
  /\ UNCHANGED <<phase, pendingHydration, selectedTicket, isPlaying>>
  /\ UNCHANGED <<calls, audioRef, batchRunning, batchResult, batch>>
  /\ UNCHANGED <<nextReq, nextCall, starts, hydrations>>
  /\ UNCHANGED <<azVars, libVars>>

\* variant: without the early return, a null draft is published as an empty text
handleApprovePublish_noGuard ==
  /\ phase = "ready"
  /\ \E t \in ClockReads :
       LET draft == OrEmpty(newKnowledgeDraft)
           kbId == KbId(t)
       IN /\ now' = t
          /\ publishedArticles' = Appended(publishedArticles,
                 <<NewArticle(kbId, DraftTitle(draft), DraftBody(draft), t, selectedTicket)>>)
          /\ learningLog' = Appended(learningLog, <<ApprovedEvent(selectedTicket, kbId, t)>>)
          /\ sessionLineage' = Appended(sessionLineage,
                 <<LineageRow(kbId, selectedTicket, DraftBody(draft))>>)
          /\ newKnowledgeDraft' = Null
          /\ draftOrigin' = Null
          /\ Rendered
  /\ UNCHANGED <<phase, pendingHydration, selectedTicket, isPlaying, analysis, analyzing, asyncVars>>
  /\ UNCHANGED <<nextReq, nextCall, starts, appliedMax, awaiting, hydrations>>
  /\ UNCHANGED <<azVars, libVars>>

\* ------------------------------------------------------- approve / dismiss
\* handleApprovePublish (via triggerPublishWithCelebration)
handleApprovePublish ==
  /\ phase = "ready"
  /\ IF IsNull(newKnowledgeDraft)
     THEN UNCHANGED <<newKnowledgeDraft, draftOrigin, sessionVars, stored, now>>
     ELSE \E t \in ClockReads :
          LET draft == Val(newKnowledgeDraft)
              ticketId == selectedTicket
              title == DraftTitle(draft)
              bodyFull == DraftBody(draft)
              kbId == KbId(t)
          IN /\ now' = t
             /\ publishedArticles' = Appended(publishedArticles, <<NewArticle(kbId, title, bodyFull, t, ticketId)>>)
             /\ learningLog' = Appended(learningLog, <<ApprovedEvent(ticketId, kbId, t)>>)
             /\ sessionLineage' = Appended(sessionLineage, <<LineageRow(kbId, ticketId, bodyFull)>>)
             /\ newKnowledgeDraft' = Null
             /\ draftOrigin' = Null
             /\ Rendered
  /\ UNCHANGED <<phase, pendingHydration, selectedTicket, isPlaying, analysis, analyzing, asyncVars>>
  /\ UNCHANGED <<nextReq, nextCall, starts, appliedMax, awaiting, hydrations>>
  /\ UNCHANGED <<azVars, libVars>>

\* onClick of "Dismiss draft" (rendered only while a draft is pending)
dismissDraft ==
  /\ phase = "ready"
  /\ ~IsNull(newKnowledgeDraft)
  /\ \E t \in ClockReads :
       /\ now' = t
       /\ learningLog' = Appended(learningLog, <<DismissedEvent(selectedTicket, t)>>)
  /\ newKnowledgeDraft' = Null
  /\ draftOrigin' = Null
  /\ UNCHANGED <<publishedArticles, sessionLineage>>
  /\ Rendered
  /\ UNCHANGED <<phase, pendingHydration, selectedTicket, isPlaying, analysis, analyzing, asyncVars>>
  /\ UNCHANGED <<nextReq, nextCall, starts, appliedMax, awaiting, hydrations>>
  /\ UNCHANGED <<azVars, libVars>>

\* ------------------------------------------------------- batch simulation
\* variant: the calls of all the tickets are issued at once
runBatchSimulation_parallel ==
  /\ phase = "ready"
  /\ ~batchRunning
  /\ Len(toRun) # 0
  /\ starts < MaxStarts
  /\ starts' = starts + 1
  /\ batchRunning' = TRUE
  /\ batchResult' = Null
  /\ batch' = Some([learned |-> Learned(publishedArticles), idx |-> 1, gaps |-> 0, fromKb |-> 0])
  /\ inflight' = inflight \cup {Request(0, "batch", toRun[i], Learned(publishedArticles)) : i \in 1..Len(toRun)}
  /\ UNCHANGED <<phase, pendingHydration, uiVars, sessionVars, stored, now, calls, audioRef>>
  /\ UNCHANGED <<nextReq, nextCall, draftOrigin, appliedMax, awaiting, hydrations>>
  /\ UNCHANGED <<azVars, libVars>>

\* runBatchSimulation up to the await of its first analyzeTicket call
runBatchSimulation ==
  /\ phase = "ready"
  /\ ~batchRunning
  /\ Len(toRun) # 0
  /\ starts < MaxStarts
  /\ starts' = starts + 1
  /\ batchRunning' = TRUE
  /\ batchResult' = Null
  /\ batch' = Some([learned |-> Learned(publishedArticles), idx |-> 1, gaps |-> 0, fromKb |-> 0])
  /\ inflight' = Issued(Request(0, "batch", toRun[1], Learned(publishedArticles)))
  /\ UNCHANGED <<phase, pendingHydration, uiVars, sessionVars, stored, now, calls, audioRef>>
  /\ UNCHANGED <<nextReq, nextCall, draftOrigin, appliedMax, awaiting, hydrations>>
  /\ UNCHANGED <<azVars, libVars>>

\* runBatchSimulation after an await: count the result, then the next
\* ticket's call, or the summary after the last one
runBatchResume(r, res) ==
  /\ r \in inflight
  /\ r.kind = "batch"
  /\ ~IsNull(batch)
  /\ LET b == Val(batch)
         gaps == IF ~IsNull(res.new_knowledge_draft) THEN b.gaps + 1 ELSE b.gaps
         fromKb == IF ~IsNull(res.new_knowledge_draft) THEN b.fromKb ELSE b.fromKb + 1
     IN IF b.idx < Len(toRun)
        THEN /\ batch' = Some([b EXCEPT !.idx = b.idx + 1, !.gaps = gaps, !.fromKb = fromKb])
             /\ inflight' = (inflight \ {r}) \cup {Request(0, "batch", toRun[b.idx + 1], b.learned)}
             /\ UNCHANGED <<batchRunning, batchResult>>
        ELSE /\ batch' = Null
             /\ inflight' = inflight \ {r}
             /\ batchResult' = Some([total |-> Len(toRun), gaps |-> gaps, fromKb |-> fromKb])
             /\ batchRunning' = FALSE
  /\ UNCHANGED <<phase, pendingHydration, uiVars, sessionVars, stored, now, calls, audioRef>>
  /\ UNCHANGED <<nextReq, nextCall, starts, draftOrigin, appliedMax, awaiting, hydrations>>
  /\ UNCHANGED <<azVars, libVars>>

\* the server action's promise rejects (transport failure of the action
\* call itself): the awaiting handler ends there, nothing after its await runs
analyzeRejected(r) ==
  /\ r \in inflight
  /\ inflight' = inflight \ {r}
  /\ batch' = IF r.kind = "batch" THEN Null ELSE batch
  /\ UNCHANGED <<phase, pendingHydration, uiVars, sessionVars, stored, now, calls, audioRef, batchRunning, batchResult>>
  /\ UNCHANGED <<nextReq, nextCall, starts, draftOrigin, appliedMax, awaiting, hydrations>>
  /\ UNCHANGED <<azVars, libVars>>

\* ------------------------------------------------------------ page reload
\* The page is reloaded (or closed and opened again): the component mounts
\* anew with the initial value of every useState cell and ref; pending
\* promises, timers and audio of the old page are gone.  localStorage and
\* the clock are all that carries over.  The ghost budget `starts` counts
\* over the whole run.
reload ==
  /\ phase' = "mount"
  /\ pendingHydration' = EmptySession
  /\ selectedTicket' = allTickets[1]
  /\ isPlaying' = FALSE
  /\ analysis' = Null
  /\ analyzing' = FALSE
  /\ newKnowledgeDraft' = Null
  /\ publishedArticles' = <<>>
  /\ learningLog' = <<>>
  /\ sessionLineage' = <<>>
  /\ inflight' = {}
  /\ calls' = {}
  /\ audioRef' = Null
  /\ batchRunning' = FALSE
  /\ batchResult' = Null
  /\ batch' = Null
  /\ nextReq' = 0
  /\ nextCall' = 0
  /\ draftOrigin' = Null
  /\ appliedMax' = 0
  /\ awaiting' = FALSE
  /\ hydrations' = 0
  /\ UNCHANGED <<stored, now, starts>>
  /\ UNCHANGED <<azVars, libVars>>

\* ===================================================================
\* The server action analyzeTicket
\* ===================================================================
\* ------------------------------------------------------- JavaScript values
\* A value found in a parsed reply: a tag for its kind and its payload.
\* Numbers are counted in tenths, JsNum(5) being 0.5 and JsNum(10) being 1;
\* NaN is a number.  A string is a text (a sequence of symbols); a numeral
\* such as "0.7" is one symbol.  JsObj is a plain object without the
\* members looked up in it.
JsVal(t, b, n, nan, s) == [t |-> t, b |-> b, n |-> n, nan |-> nan, s |-> s]
JsUndefined == JsVal("undefined", FALSE, 0, FALSE, <<>>)
JsNull == JsVal("null", FALSE, 0, FALSE, <<>>)
JsBool(b) == JsVal("boolean", b, 0, FALSE, <<>>)
JsNum(n) == JsVal("number", FALSE, n, FALSE, <<>>)
JsNaN == JsVal("number", FALSE, 0, TRUE, <<>>)
JsStr(s) == JsVal("string", FALSE, 0, FALSE, s)
JsObj == JsVal("object", FALSE, 0, FALSE, <<>>)

\* typeof x
TypeOf(v) == IF v.t = "null" THEN "object" ELSE v.t
\* x == null (undefined or null), the test of ?? and ?.
IsNullish(v) == v.t \in {"undefined", "null"}
\* ToBoolean(x), the test of &&, ?: and if
Truthy(v) ==
  CASE v.t = "boolean" -> v.b
    [] v.t = "number" -> ~v.nan /\ v.n # 0
    [] v.t = "string" -> v.s # <<>>
    [] v.t = "object" -> TRUE
    [] OTHER -> FALSE

\* the numerals of the model: symbol and value in tenths
Numerals ==
  { <<"-1", -10>>, <<"0", 0>>, <<"0.5", 5>>, <<"0.7", 7>>, <<"1", 10>>, <<"2", 20>>,
    <<"5", 50>>, <<"50", 500>>, <<"100", 1000>>, <<"150", 1500>> }
NumeralOf(n) == (CHOOSE p \in Numerals : p[2] = n)[1]
IsNumeral(c) == \E p \in Numerals : p[1] = c
NumeralValue(c) == (CHOOSE p \in Numerals : p[1] = c)[2]

\* Number(x)
ToNumber(v) ==
  CASE v.t = "undefined" -> JsNaN
    [] v.t = "null" -> JsNum(0)
    [] v.t = "boolean" -> IF v.b THEN JsNum(10) ELSE JsNum(0)
    [] v.t = "number" -> v
    [] v.t = "string" ->
         IF Trim(v.s) = <<>> THEN JsNum(0)
         ELSE IF Len(Trim(v.s)) = 1 /\ IsNumeral(Trim(v.s)[1]) THEN JsNum(NumeralValue(Trim(v.s)[1]))
         ELSE JsNaN
    [] OTHER -> JsNaN

\* String(x)
JsString(v) ==
  CASE v.t = "undefined" -> <<"undefined">>
    [] v.t = "null" -> <<"null">>
    [] v.t = "boolean" -> IF v.b THEN <<"true">> ELSE <<"false">>
    [] v.t = "number" -> IF v.nan THEN <<"NaN">> ELSE <<NumeralOf(v.n)>>
    [] v.t = "string" -> v.s
    [] OTHER -> <<"[object Object]">>

\* x ?? d
Coalesce(v, d) == IF IsNullish(v) THEN d ELSE v

\* Math.max(a, b) and Math.min(a, b) of two numbers: NaN if either is NaN
MathMax(a, b) == IF a.nan \/ b.nan THEN JsNaN ELSE IF a.n >= b.n THEN a ELSE b
MathMin(a, b) == IF a.nan \/ b.nan THEN JsNaN ELSE IF a.n <= b.n THEN a ELSE b

\* ------------------------------------------------ knowledge base and context
\* loadKnowledgeArticles(): the Knowledge_Articles sheet, in sheet order
SeedId(i) == [prefix |-> "KB-SEED-", n |-> i]
KbRow(i) == [KB_Article_ID |-> SeedId(i), Title |-> <<"t", "i", "t", "l", "e">>, Body |-> <<"b", "o", "d", "y">>]
CorpusSize == 6
kbCorpus == [i \in 1..CorpusSize |-> KbRow(i)]

\* a row of the Scripts_Master sheet as the prompt reads it
ScriptHit(i) == [Script_ID |-> [prefix |-> "SCRIPT-", n |-> i], Script_Title |-> Some(<<"s">>)]

\* all.slice(0, 5), the context when the search finds nothing
FallbackSize == 5
\* variant: no fallback to the head of the sheet
seedArticles_noFallback(relevant, all) == relevant

\* the articles put in the context and in sources_used
seedArticles(relevant, all) == IF Len(relevant) > 0 THEN relevant ELSE Slice0(all, FallbackSize)

\* contextParts: the sections of the context.  The learned section is there
\* iff there are learned articles; the seed section holds the scored
\* articles, or else the fallback ones, and is left out when all.slice(0, 5)
\* is empty (fallback.trim() is then "").  Bodies are cut to 1200
\* characters, those of the fallback to 800.
ContextBodyLen == 1200
FallbackBodyLen == 800
Section(heading, entries) == [heading |-> heading, entries |-> entries]
LearnedSection(learned) ==
  Section("Previously learned articles",
          [i \in 1..Len(learned) |->
             [id |-> learned[i].id, ticketId |-> Some(learned[i].ticketId), title |-> learned[i].title,
              body |-> Slice0(learned[i].body, ContextBodyLen)]])
SeedSection(seed, bodyLen) ==
  Section("Seed knowledge base",
          [i \in 1..Len(seed) |->
             [id |-> seed[i].KB_Article_ID, ticketId |-> Null, title |-> seed[i].Title,
              body |-> Slice0(seed[i].Body, bodyLen)]])
contextParts(learned, relevant, all) ==
  (IF Len(learned) > 0 THEN <<LearnedSection(learned)>> ELSE <<>>)
  \o (IF Len(relevant) > 0 THEN <<SeedSection(relevant, ContextBodyLen)>>
      ELSE IF seedArticles(relevant, all) # <<>>
      THEN <<SeedSection(seedArticles(relevant, all), FallbackBodyLen)>>
      ELSE <<>>)

\* the prompt of the solve call: the context (the sentence "No knowledge
\* articles available in the database." when there is no section) and the
\* scripts listed in instruction 3, Script_ID and title
Prompt(learned, relevant, all, relScripts) ==
  [context |-> contextParts(learned, relevant, all),
   scripts |-> [i \in 1..Len(relScripts) |->
                 [id |-> relScripts[i].Script_ID, title |-> OrEmpty(relScripts[i].Script_Title)]]]

SourceTitleLen == 120
\* variant: the seed entries are listed before the learned ones
SourcesUsed_seedFirst(learned, seed) ==
  [i \in 1..Len(seed) |->
     [id |-> seed[i].KB_Article_ID, title |-> Slice0(seed[i].Title, SourceTitleLen),
      snippet |-> Slice0(seed[i].Body, SnippetLen), source |-> "seed", ticketId |-> Null]]
  \o
  [i \in 1..Len(learned) |->
     [id |-> learned[i].id, title |-> learned[i].title, snippet |-> Slice0(learned[i].body, SnippetLen),
      source |-> "learned", ticketId |-> Some(learned[i].ticketId)]]

\* sources_used: the learned articles, then the seed articles
SourcesUsed(learned, seed) ==
  [i \in 1..Len(learned) |->
     [id |-> learned[i].id, title |-> learned[i].title, snippet |-> Slice0(learned[i].body, SnippetLen),
      source |-> "learned", ticketId |-> Some(learned[i].ticketId)]]
  \o
  [i \in 1..Len(seed) |->
     [id |-> seed[i].KB_Article_ID, title |-> Slice0(seed[i].Title, SourceTitleLen),
      snippet |-> Slice0(seed[i].Body, SnippetLen), source |-> "seed", ticketId |-> Null]]

\* ------------------------------------------------------ the solve reply
\* recommended_resource of the parsed reply: whether it is truthy, and its
\* members (undefined when it is not an object)
Resource(truthy, type, id, title) == [truthy |-> truthy, type |-> type, id |-> id, title |-> title]
NoResource == Resource(FALSE, JsUndefined, JsUndefined, JsUndefined)

\* the members of the parsed reply that analyzeTicket reads
ParsedReply(solution, confidence, draft, resource) ==
  [solution |-> solution, confidence_score |-> confidence, new_knowledge_draft |-> draft,
   recommended_resource |-> resource]
\* a parsed value without any of the members: {}, a number, a string, an array
NoMembers == ParsedReply(JsUndefined, JsUndefined, JsUndefined, NoResource)

\* parsed.solution ?? "No solution generated."
SolutionOf(p) == Coalesce(p.solution, JsStr(<<"No solution generated.">>))

\* Math.min(1, Math.max(0, Number(parsed.confidence_score) ?? 0.5))
ConfidenceOf(p) ==
  MathMin(JsNum(10), MathMax(JsNum(0), Coalesce(ToNumber(p.confidence_score), JsNum(5))))

\* parsed.new_knowledge_draft && String(parsed.new_knowledge_draft).trim()
\*   ? String(parsed.new_knowledge_draft).trim() : null
DraftOf(p) ==
  IF Truthy(p.new_knowledge_draft) /\ Trim(JsString(p.new_knowledge_draft)) # <<>>
  THEN JsStr(Trim(JsString(p.new_knowledge_draft)))
  ELSE JsNull

\* variant: any truthy type is accepted
ResourceOf_anyType(p) ==
  LET rr == p.recommended_resource
  IN IF rr.truthy /\ Truthy(rr.type) /\ Truthy(rr.id)
     THEN Some([type |-> JsString(rr.type), id |-> JsString(rr.id),
                title |-> IF Truthy(rr.title) THEN Some(Slice0(JsString(rr.title), SourceTitleLen)) ELSE Null])
     ELSE Null

\* rr && rr.type && rr.id && (rr.type === "KB" || rr.type === "SCRIPT")
\*   ? { type, id: String(rr.id), title: rr.title ? String(rr.title).slice(0, 120) : undefined } : null
ResourceOf(p) ==
  LET rr == p.recommended_resource
  IN IF /\ rr.truthy /\ Truthy(rr.type) /\ Truthy(rr.id)
        /\ (rr.type = JsStr(<<"KB">>) \/ rr.type = JsStr(<<"SCRIPT">>))
     THEN Some([type |-> rr.type.s, id |-> JsString(rr.id),
                title |-> IF Truthy(rr.title) THEN Some(Slice0(JsString(rr.title), SourceTitleLen)) ELSE Null])
     ELSE Null

\* ---------------------------------------------------- the Stage 2 replies
\* String.prototype.toUpperCase, on the letters of the model's replies
UpperOf(c) ==
  CASE c = "u" -> "U" [] c = "n" -> "N" [] c = "s" -> "S" [] c = "a" -> "A"
    [] c = "f" -> "F" [] c = "e" -> "E" [] OTHER -> c
ToUpperCase(s) == [i \in 1..Len(s) |-> UpperOf(s[i])]
\* String.prototype.includes
Includes(s, part) == \E i \in 0..(Len(s) - Len(part)) : SubSeq(s, i + 1, i + Len(part)) = part

\* the locals compliance_status, qa_score, red_flags, coaching_tip
Stage2Locals(compliance, qa_score, red_flags, coaching_tip) ==
  [compliance_status |-> compliance, qa_score |-> qa_score, red_flags |-> red_flags, coaching_tip |-> coaching_tip]
\* their initial values
Stage2Initial == Stage2Locals("UNKNOWN", JsNull, <<>>, JsNull)

\* variant: the reply is tested as it came, without toUpperCase
ComplianceOf_caseSensitive(text) ==
  IF Includes(Trim(text), <<"U", "N", "S", "A", "F", "E">>) THEN "UNSAFE" ELSE "SAFE"

\* complianceText.includes("UNSAFE") ? "UNSAFE" : "SAFE", complianceText
\* being the reply trimmed and in upper case
ComplianceOf(text) ==
  IF Includes(ToUpperCase(Trim(text)), <<"U", "N", "S", "A", "F", "E">>) THEN "UNSAFE" ELSE "SAFE"

\* The quality reply as lines 183-185 see it: "nomatch" has no {...} in it,
\* "unparsable" has one that parseJsonSafe rejects, "object" has one that
\* parses, with these members (red_flags: an array of values or not one).
QaReply(kind, qa_score, red_flags, coaching_tip) ==
  [kind |-> kind, qa_score |-> qa_score, red_flags |-> red_flags, coaching_tip |-> coaching_tip]

\* variant: a numeric score is passed on as it came
QaScoreOf_unclamped(q) == IF TypeOf(q.qa_score) = "number" THEN q.qa_score ELSE JsNull

\* typeof qaParsed.qa_score === "number" ? Math.max(0, Math.min(100, qaParsed.qa_score)) : null
QaScoreOf(q) ==
  IF TypeOf(q.qa_score) = "number" THEN MathMax(JsNum(0), MathMin(JsNum(1000), q.qa_score)) ELSE JsNull
\* Array.isArray(qaParsed.red_flags) ? qaParsed.red_flags.filter((x) => typeof x === "string") : []
RedFlagsOf(q) ==
  IF q.red_flags.isArray
  THEN LET strings == SelectSeq(q.red_flags.items, LAMBDA x : TypeOf(x) = "string")
       IN [i \in 1..Len(strings) |-> strings[i].s]
  ELSE <<>>
\* typeof coaching_tip === "string" && coaching_tip.trim() ? coaching_tip.trim() : null
CoachingTipOf(q) ==
  IF TypeOf(q.coaching_tip) = "string" /\ Trim(q.coaching_tip.s) # <<>>
  THEN JsStr(Trim(q.coaching_tip.s)) ELSE JsNull

\* The locals after lines 180-189 ran on the two replies.  compliance_status
\* is assigned before the quality reply is parsed, so it keeps its value when
\* parseJsonSafe throws into the empty catch.
Stage2Of(complianceText, q) ==
  IF q.kind = "object"
  THEN Stage2Locals(ComplianceOf(complianceText), QaScoreOf(q), RedFlagsOf(q), CoachingTipOf(q))
  ELSE Stage2Locals(ComplianceOf(complianceText), JsNull, <<>>, JsNull)

\* ------------------------------------------------------------ the results
AnalyzeTicketResult(solution, confidence, draft, st2, sources, resource, error) ==
  [solution |-> solution, confidence_score |-> confidence, new_knowledge_draft |-> draft,
   compliance_status |-> st2.compliance_status, sources_used |-> sources,
   recommended_resource |-> resource, qa_score |-> st2.qa_score, red_flags |-> st2.red_flags,
   coaching_tip |-> st2.coaching_tip, error |-> error]

\* the result returned when the API key is missing
ConfigErrorResult ==
  AnalyzeTicketResult(JsStr(<<"Error: Gemini API key not configured.">>), JsNum(0), JsNull,
                      Stage2Initial, <<>>, Null, JsStr(<<"Missing API key">>))
\* the result returned by the outer catch
ErrorResult(message) ==
  AnalyzeTicketResult(JsStr(<<"Analysis failed: ">> \o message), JsNum(0), JsNull,
                      Stage2Initial, <<>>, Null, JsStr(message))
\* the result returned at the end of the try block
SuccessResult(p, sources, st2) ==
  AnalyzeTicketResult(SolutionOf(p), ConfidenceOf(p), DraftOf(p), st2, sources, ResourceOf(p), JsUndefined)

\* how an invocation ends
Return(value) == [kind |-> "return", value |-> value]
Throw(message) == [kind |-> "throw", value |-> ErrorResult(message)]

\* variant: the outer catch lets the exception out
OuterCatch_rethrow(message) == Throw(message)

\* catch (e) { ... return {...error: message} }
OuterCatch(message) == Return(ErrorResult(message))

\* variant: a failure of Stage 2 reaches the outer catch
InnerCatch_fatal(p, sources, st2) == OuterCatch(<<"stage 2 failed">>)

\* catch { /* compliance/QA optional */ }: execution goes on to the return
\* statement with the Stage 2 locals as they are
InnerCatch(p, sources, st2) == Return(SuccessResult(p, sources, st2))

\* ------------------------------------------------------------- the inputs
\* the learnedArticles argument: none, or the article of an earlier session
laterArticle == NewArticle(KbId(1), PlaceholderTitle, <<"X">>, 1, "T2")
LearnedInputs == {<<>>, Learned(<<priorArticle, laterArticle>>)}
\* the sheet: empty, shorter than the fallback, longer than the fallback
SheetInputs == {<<>>, Slice0(kbCorpus, 3), kbCorpus}
\* results of the knowledge-base search: nothing, or rows in score order
RelevantInputs == {<<>>, <<kbCorpus[2]>>, <<kbCorpus[3], kbCorpus[1]>>}
\* results of the script search: nothing, or one script
ScriptInputs == {<<>>, <<ScriptHit(1)>>}

\* What awaiting the solve call and parsing its reply can come to.
SolveOutcome(kind, obj) == [kind |-> kind, obj |-> obj]
BaseReply ==
  ParsedReply(JsStr(<<"S">>), JsNum(7), JsNull,
              Resource(TRUE, JsStr(<<"KB">>), JsStr(<<"KB1">>), JsStr(<<"T">>)))
Solutions == {JsUndefined, JsNull, JsStr(<<"S">>), JsNum(50), JsObj}
Confidences ==
  {JsUndefined, JsNull, JsNum(-10), JsNum(0), JsNum(7), JsNum(10), JsNum(20),
   JsStr(<<"0.7">>), JsStr(<<"a">>), JsBool(TRUE), JsObj}
DraftValues ==
  {JsUndefined, JsNull, JsStr(<<>>), JsStr(<<" ", "\n">>), JsStr(<<" ">> \o DraftMarked \o <<"\n">>),
   JsNum(50), JsBool(TRUE), JsBool(FALSE), JsObj}
Resources ==
  {NoResource,
   Resource(TRUE, JsStr(<<"KB">>), JsStr(<<"KB1">>), JsStr(<<"T">>)),
   Resource(TRUE, JsStr(<<"SCRIPT">>), JsNum(50), JsUndefined),
   Resource(TRUE, JsStr(<<"kb">>), JsStr(<<"KB1">>), JsStr(<<"T">>)),
   Resource(TRUE, JsStr(<<"KB">>), JsUndefined, JsStr(<<"T">>)),
   Resource(TRUE, JsUndefined, JsStr(<<"KB1">>), JsStr(<<"T">>))}
ParsedReplies ==
  {NoMembers}
  \cup {[BaseReply EXCEPT !.solution = v] : v \in Solutions}
  \cup {[BaseReply EXCEPT !.confidence_score = v] : v \in Confidences}
  \cup {[BaseReply EXCEPT !.new_knowledge_draft = v] : v \in DraftValues}
  \cup {[BaseReply EXCEPT !.recommended_resource = v] : v \in Resources}
SolveOutcomes ==
  {SolveOutcome(k, NoMembers) : k \in {"rejected", "unparsable", "null"}}
  \cup {SolveOutcome("object", p) : p \in ParsedReplies}

\* the replies of the two Stage 2 calls
ComplianceReplies ==
  {<<"S", "A", "F", "E">>, <<" ", "U", "N", "S", "A", "F", "E", "\n">>, <<"u", "n", "s", "a", "f", "e">>, <<>>}
NoQa == QaReply("nomatch", JsUndefined, NotArr, JsUndefined)
BaseQa == QaReply("object", JsNum(500), Arr(<<>>), JsStr(<<" ", "t", "i", "p">>))
QaReplies ==
  {NoQa, QaReply("unparsable", JsUndefined, NotArr, JsUndefined)}
  \cup {[BaseQa EXCEPT !.qa_score = v] : v \in {JsUndefined, JsNull, JsNum(-10), JsNum(500), JsNum(1500), JsStr(<<"50">>)}}
  \cup {[BaseQa EXCEPT !.red_flags = v] : v \in {NotArr, Arr(<<JsStr(<<"p", "i", "i">>), JsNum(50)>>)}}
  \cup {[BaseQa EXCEPT !.coaching_tip = v] : v \in {JsUndefined, JsStr(<<" ">>), JsNum(50)}}
Settled(status, text, qa) == [status |-> status, text |-> text, qa |-> qa]
Stage2Outcomes(kind) ==
  {Settled("rejected", <<>>, NoQa)}
  \cup (IF kind = "compliance"
        THEN {Settled("fulfilled", t, NoQa) : t \in ComplianceReplies}
        ELSE {Settled("fulfilled", <<>>, q) : q \in QaReplies})

\* ---------------------------------------------------------- the invocation
\* a model.generateContent(...) call
Call(kind) == [kind |-> kind, status |-> "pending", text |-> <<>>, qa |-> NoQa]
\* line 151
SolveCall == <<Call("solve")>>
\* variant: the quality call is issued twice
Stage2Calls_retry == <<Call("compliance"), Call("qa"), Call("qa")>>

\* the two calls handed to Promise.all
Stage2Calls == <<Call("compliance"), Call("qa")>>

\* e.message of what the solve stage threw
MessageOf(o) ==
  CASE o.kind = "rejected" -> <<"fetch failed">>
    [] o.kind = "unparsable" -> <<"Unexpected token">>
    [] OTHER -> <<"Cannot read properties of null (reading 'solution')">>

\* variant: the solve call is issued before the key is looked at
KeyMissing_ignored == FALSE

\* if (!apiKey)
KeyMissing == ~apiKey

\* analyzeTicket up to its first await: without an API key it returns at
\* once; else it builds the context and the prompt and issues the solve call
analyzeTicket ==
  /\ azPc = "idle"
  /\ IF KeyMissing
     THEN /\ azPc' = "done"
          /\ azOutcome' = Some(Return(ConfigErrorResult))
          /\ UNCHANGED <<llmCalls, prompt>>
     ELSE /\ azPc' = "stage1"
          /\ prompt' = Some(Prompt(learnedArticles, relevantArticles, allArticles, relevantScripts))
          /\ llmCalls' = SolveCall
          /\ UNCHANGED azOutcome
  /\ UNCHANGED <<azInputs, parsed>>
  /\ UNCHANGED <<dashVars, libVars>>

\* sources_used as built before the prompt
sources_used == SourcesUsed(learnedArticles, seedArticles(relevantArticles, allArticles))

\* analyzeTicket from the settling of the solve call to its next await or to
\* its end.  A rejection, a parse error and the TypeError of reading
\* .solution of null go to the outer catch.  solution.slice throws a
\* TypeError inside the inner try when solution is not a string: no Stage 2
\* call is issued and execution goes on after the empty catch.
solveSettled(o) ==
  /\ azPc = "stage1"
  /\ parsed' = Some(o)
  /\ IF o.kind # "object"
     THEN /\ llmCalls' = [llmCalls EXCEPT ![1].status = IF o.kind = "rejected" THEN "rejected" ELSE "fulfilled"]
          /\ azOutcome' = Some(OuterCatch(MessageOf(o)))
          /\ azPc' = "done"
     ELSE IF SolutionOf(o.obj).t # "string"
     THEN /\ llmCalls' = [llmCalls EXCEPT ![1].status = "fulfilled"]
          /\ azOutcome' = Some(InnerCatch(o.obj, sources_used, Stage2Initial))
          /\ azPc' = "done"
     ELSE /\ llmCalls' = [llmCalls EXCEPT ![1].status = "fulfilled"] \o Stage2Calls
          /\ azPc' = "stage2"
          /\ UNCHANGED azOutcome
  /\ UNCHANGED <<azInputs, prompt>>
  /\ UNCHANGED <<dashVars, libVars>>

\* the Stage 2 calls of a call log, and the replies Promise.all resolves with
Stage2Indices(log) == {i \in 1..Len(log) : log[i].kind \in {"compliance", "qa"}}
ReplyOf(log, kind) == log[CHOOSE i \in 1..Len(log) : log[i].kind = kind]

\* A Stage 2 call settles.  While analyzeTicket awaits Promise.all: the first
\* rejection rejects it (the empty catch, then the return statement); the
\* last fulfilment resolves it and lines 180-189 run.  A call that settles
\* after analyzeTicket returned changes nothing.
stage2Settled(i, r) ==
  /\ i \in Stage2Indices(llmCalls)
  /\ llmCalls[i].status = "pending"
  /\ r \in Stage2Outcomes(llmCalls[i].kind)
  /\ llmCalls' = [llmCalls EXCEPT ![i] = [kind |-> llmCalls[i].kind, status |-> r.status, text |-> r.text, qa |-> r.qa]]
  /\ IF azPc # "stage2"
     THEN UNCHANGED <<azPc, azOutcome>>
     ELSE IF r.status = "rejected"
     THEN /\ azOutcome' = Some(InnerCatch(Val(parsed).obj, sources_used, Stage2Initial))
          /\ azPc' = "done"
     ELSE IF \A j \in Stage2Indices(llmCalls') : llmCalls'[j].status = "fulfilled"
     THEN LET text == ReplyOf(llmCalls', "compliance").text
              q == ReplyOf(llmCalls', "qa").qa
          IN /\ azOutcome' =
                  IF q.kind = "unparsable"
                  THEN Some(InnerCatch(Val(parsed).obj, sources_used, Stage2Of(text, q)))
                  ELSE Some(Return(SuccessResult(Val(parsed).obj, sources_used, Stage2Of(text, q))))
             /\ azPc' = "done"
     ELSE UNCHANGED <<azPc, azOutcome>>
  /\ UNCHANGED <<azInputs, prompt, parsed>>
  /\ UNCHANGED <<dashVars, libVars>>

\* analyzeTicket on its own: the dashboard rests, the arguments and the
\* configuration are any of the inputs
AnalyzeInit ==
  /\ DashboardInit
  /\ stored = Absent
  /\ apiKey \in BOOLEAN
  /\ learnedArticles \in LearnedInputs
  /\ allArticles \in SheetInputs
  /\ relevantArticles \in {rel \in RelevantInputs : \A i \in DOMAIN rel : \E j \in DOMAIN allArticles : allArticles[j] = rel[i]}
  /\ relevantScripts \in ScriptInputs
  /\ prompt = Null
  /\ azPc = "idle"
  /\ parsed = Null
  /\ llmCalls = <<>>
  /\ azOutcome = Null
  /\ LibIdle

AnalyzeNext ==
  \/ analyzeTicket
  \/ \E o \in SolveOutcomes : solveSettled(o)
  \/ \E i \in 1..Len(llmCalls), r \in Stage2Outcomes("compliance") \cup Stage2Outcomes("qa") :
       stage2Settled(i, r)

SpecAnalyze == AnalyzeInit /\ [][AnalyzeNext]_vars

\* ===================================================================
\* The retrieval functions of excel-parser
\* ===================================================================
\* ------------------------------------------------------------------ texts
\* Here a text is a sequence of single characters.
Range(s) == {s[i] : i \in DOMAIN s}
Uppers ==
  <<"A", "B", "C", "D", "E", "F", "G", "H", "I", "J", "K", "L", "M", "N",
     "O", "P", "Q", "R", "S", "T", "U", "V", "W", "X", "Y", "Z">>
Lowers ==
  <<"a", "b", "c", "d", "e", "f", "g", "h", "i", "j", "k", "l", "m", "n",
     "o", "p", "q", "r", "s", "t", "u", "v", "w", "x", "y", "z">>
Digits == {"0", "1", "2", "3", "4", "5", "6", "7", "8", "9"}
\* String.prototype.toLowerCase, on ASCII letters
LowerOf(c) ==
  IF \E i \in DOMAIN Uppers : Uppers[i] = c
  THEN Lowers[CHOOSE i \in DOMAIN Uppers : Uppers[i] = c]
  ELSE c
ToLowerCase(s) == [i \in 1..Len(s) |-> LowerOf(s[i])]
\* the classes \w and \s of the regular expressions
IsWordChar(c) == c \in Range(Uppers) \cup Range(Lowers) \cup Digits \cup {"_"}
IsWhiteSpace(c) == c \in {" ", "\t", "\n", "\r"}

\* ------------------------------------------------------ extractSearchTerms
\* the stopword list of line 148, split on " "
stop ==
  { <<"a">>, <<"a", "n">>, <<"t", "h", "e">>, <<"a", "n", "d">>, <<"o", "r">>,
    <<"b", "u", "t">>, <<"i", "n">>, <<"o", "n">>, <<"a", "t">>, <<"t", "o">>,
    <<"f", "o", "r">>, <<"o", "f">>, <<"w", "i", "t", "h">>, <<"b", "y">>,
    <<"f", "r", "o", "m">>, <<"a", "s">>, <<"i", "s">>, <<"w", "a", "s">>, <<"a", "r", "e">>,
    <<"w", "e", "r", "e">>, <<"b", "e">>, <<"b", "e", "e", "n">>, <<"b", "e", "i", "n", "g">>,
    <<"h", "a", "v", "e">>, <<"h", "a", "s">>, <<"h", "a", "d">>, <<"d", "o">>,
    <<"d", "o", "e", "s">>, <<"d", "i", "d">>, <<"w", "i", "l", "l">>,
    <<"w", "o", "u", "l", "d">>, <<"c", "o", "u", "l", "d">>, <<"s", "h", "o", "u", "l", "d">>,
    <<"m", "a", "y">>, <<"m", "i", "g", "h", "t">>, <<"m", "u", "s", "t">>,
    <<"s", "h", "a", "l", "l">>, <<"c", "a", "n">>, <<"n", "e", "e", "d">>,
    <<"d", "a", "r", "e">>, <<"o", "u", "g", "h", "t">>, <<"u", "s", "e", "d">> }

\* .replace(/[^\w\s]/g, " ")
ReplaceNonWord(s) == [i \in 1..Len(s) |-> IF IsWordChar(s[i]) \/ IsWhiteSpace(s[i]) THEN s[i] ELSE " "]

\* .split(/\s+/): the pieces between the maximal runs of white space, the
\* empty pieces before a leading run and after a trailing run included; a
\* text without white space (the empty text too) is one piece
RECURSIVE Split(_)
Split(s) ==
  IF \A i \in DOMAIN s : ~IsWhiteSpace(s[i])
  THEN <<s>>
  ELSE LET a == CHOOSE i \in DOMAIN s : IsWhiteSpace(s[i]) /\ \A j \in 1..(i - 1) : ~IsWhiteSpace(s[j])
           after == {i \in (a + 1)..Len(s) : ~IsWhiteSpace(s[i])}
           b == IF after = {} THEN Len(s) + 1 ELSE CHOOSE i \in after : \A j \in after : i <= j
       IN <<SubSeq(s, 1, a - 1)>> \o Split(SubSeq(s, b, Len(s)))

\* variant: one-letter and empty pieces are kept
IsSignificant_anyLength(w) == w \notin stop

\* (w) => w.length > 1 && !stop.has(w)
IsSignificant(w) == Len(w) > 1 /\ w \notin stop

\* [...new Set(words)]: a Set iterates in insertion order, and adding a
\* value it already holds changes nothing
RECURSIVE Unique(_)
Unique(s) ==
  IF s = <<>> THEN <<>>
  ELSE LET init == Unique(SubSeq(s, 1, Len(s) - 1))
       IN IF s[Len(s)] \in Range(init) THEN init ELSE Append(init, s[Len(s)])

\* extractSearchTerms(text); (text || "") is text, a string
SearchTermsOf(text) ==
  Unique(SelectSeq(Split(ReplaceNonWord(ToLowerCase(text))), IsSignificant))

\* the texts tried: every text of at most MaxTextLen characters over letters
\* that spell a stopword ("to") and other words ("oo", "tot"), an upper-case
\* letter, white space and punctuation
Alphabet == {"t", "o", "O", " ", "\n", "."}
RECURSIVE TextsOfLen(_)
TextsOfLen(n) == IF n = 0 THEN {<<>>} ELSE {Append(t, c) : t \in TextsOfLen(n - 1), c \in Alphabet}
Texts == UNION {TextsOfLen(n) : n \in 0..MaxTextLen}

extractSearchTerms ==
  /\ IsNull(extracted)
  /\ extracted' = Some(SearchTermsOf(issueText))
  /\ UNCHANGED <<issueText, searchTerms, limit, articles, scripts, kbSearch, scriptSearch>>
  /\ UNCHANGED <<dashVars, azVars, jsonVars>>

ExtractInit ==
  /\ DashboardInit
  /\ stored = Absent
  /\ AnalyzeIdle
  /\ issueText \in Texts
  /\ extracted = Null
  /\ searchTerms = <<>>
  /\ limit = 0
  /\ articles = <<>>
  /\ scripts = <<>>
  /\ kbSearch = Null
  /\ scriptSearch = Null
  /\ JsonIdle

ExtractNext == extractSearchTerms

SpecExtract == ExtractInit /\ [][ExtractNext]_vars

\* --------------------------------------------------------- scored search
\* rows of the two sheets; Title, Body, Tags, Script_Title, Script_Purpose
\* and Category are optional cells
ArticleRow(id, title, body, tags) == [KB_Article_ID |-> id, Title |-> title, Body |-> body, Tags |-> tags]
ScriptRow(id, title, purpose, category) ==
  [Script_ID |-> id, Script_Title |-> title, Script_Purpose |-> purpose, Category |-> category]

\* `${title} ${body} ${tags}`, each in lower case
ArticleHaystack(art) ==
  ToLowerCase(OrEmpty(art.Title)) \o <<" ">> \o ToLowerCase(OrEmpty(art.Body)) \o <<" ">> \o ToLowerCase(OrEmpty(art.Tags))
\* `${title} ${purpose} ${cat}`, each in lower case
ScriptHaystack(s) ==
  ToLowerCase(OrEmpty(s.Script_Title)) \o <<" ">> \o ToLowerCase(OrEmpty(s.Script_Purpose)) \o <<" ">>
    \o ToLowerCase(OrEmpty(s.Category))

\* let score = 0; for (const term of searchTerms) if (combined.includes(term)) score += 1
RECURSIVE Score(_, _)
Score(combined, terms) ==
  IF terms = <<>> THEN 0
  ELSE (IF Includes(combined, Head(terms)) THEN 1 ELSE 0) + Score(combined, Tail(terms))

\* scored.sort((a, b) => b.score - a.score): Array.prototype.sort is stable,
\* so entries of equal score keep their order
RECURSIVE InsertByScore(_, _)
InsertByScore(sorted, x) ==
  IF sorted = <<>> THEN <<x>>
  ELSE IF Head(sorted).score >= x.score THEN <<Head(sorted)>> \o InsertByScore(Tail(sorted), x)
  ELSE <<x>> \o sorted
RECURSIVE SortByScore(_)
SortByScore(scored) ==
  IF scored = <<>> THEN <<>>
  ELSE InsertByScore(SortByScore(SubSeq(scored, 1, Len(scored) - 1)), scored[Len(scored)])

\* variant: entries of score 0 are not filtered out
ReturnedRows_keepZero(sorted, lim) ==
  LET kept == Slice0(sorted, lim)
  IN [i \in 1..Len(kept) |-> kept[i].row]

\* scored.filter((s) => s.score > 0).slice(0, limit).map((s) => s.art)
ReturnedRows(sorted, lim) ==
  LET kept == Slice0(SelectSeq(sorted, LAMBDA s : s.score > 0), lim)
  IN [i \in 1..Len(kept) |-> kept[i].row]

\* what a search leaves behind: `scored` after the sort, and the value returned
SearchRun(sorted, lim) == [scored |-> sorted, returned |-> ReturnedRows(sorted, lim)]

\* searchKnowledgeArticles(searchTerms, limit) on the sheet rows
KnowledgeSearch(rows, terms, lim) ==
  SearchRun(SortByScore([i \in 1..Len(rows) |-> [row |-> rows[i], score |-> Score(ArticleHaystack(rows[i]), terms)]]), lim)
\* searchScripts(searchTerms, limit) on the sheet rows
ScriptSearch(rows, terms, lim) ==
  SearchRun(SortByScore([i \in 1..Len(rows) |-> [row |-> rows[i], score |-> Score(ScriptHaystack(rows[i]), terms)]]), lim)

\* the inputs tried.  Terms: two in lower case and one in upper case, which
\* the lower-case haystack never holds.
TermPool == {<<"v", "p">>, <<"r">>, <<"V", "P">>}
ArticlePool ==
  { ArticleRow(1, Some(<<"V", "p">>), Some(<<"r">>), Null),
    ArticleRow(2, Null, Some(<<"v", "p">>), Some(<<"x">>)),
    ArticleRow(3, Some(<<"R">>), Some(<<>>), Some(<<>>)) }
ScriptPool ==
  { ScriptRow(1, Some(<<"v", "p">>), Null, Some(<<"R">>)),
    ScriptRow(2, Some(<<"q">>), Some(<<"r">>), Null) }
\* the sequences of at most n elements of S, with or without repeated elements
RECURSIVE SeqsUpTo(_, _, _)
SeqsUpTo(S, n, repeats) ==
  IF n = 0 THEN {<<>>}
  ELSE LET shorter == SeqsUpTo(S, n - 1, repeats)
           longest == {p \in shorter : Len(p) = n - 1}
       IN shorter \cup {Append(pr[1], pr[2]) :
                          pr \in {pr \in longest \X S : repeats \/ pr[2] \notin Range(pr[1])}}
TermLists == SeqsUpTo(TermPool, MaxTerms, TRUE)
\* a sheet holds some of the pool's rows, in any order
ArticleSheets == SeqsUpTo(ArticlePool, Cardinality(ArticlePool), FALSE)
ScriptSheets == SeqsUpTo(ScriptPool, Cardinality(ScriptPool), FALSE)

searchKnowledgeArticles ==
  /\ IsNull(kbSearch)
  /\ kbSearch' = Some(KnowledgeSearch(articles, searchTerms, limit))
  /\ UNCHANGED <<issueText, extracted, searchTerms, limit, articles, scripts, scriptSearch>>
  /\ UNCHANGED <<dashVars, azVars, jsonVars>>

searchScripts ==
  /\ IsNull(scriptSearch)
  /\ scriptSearch' = Some(ScriptSearch(scripts, searchTerms, limit))
  /\ UNCHANGED <<issueText, extracted, searchTerms, limit, articles, scripts, kbSearch>>
  /\ UNCHANGED <<dashVars, azVars, jsonVars>>

SearchInit ==
  /\ DashboardInit
  /\ stored = Absent
  /\ AnalyzeIdle
  /\ issueText = <<>>
  /\ extracted = Null
  /\ searchTerms \in TermLists
  /\ limit \in 0..MaxLimit
  /\ articles \in ArticleSheets
  /\ scripts \in ScriptSheets
  /\ kbSearch = Null
  /\ scriptSearch = Null
  /\ JsonIdle

SearchNext ==
  \/ searchKnowledgeArticles
  \/ searchScripts

SpecSearch == SearchInit /\ [][SearchNext]_vars

\* ---------------------------------------------------------- parseJsonSafe
\* A text is a sequence of characters. BEL stands for a control character
\* other than newline, carriage return and tab; BS and FF are what the
\* escapes \b and \f decode to.
Quote == "\""
Backslash == "\\"
\* c.charCodeAt(0), as far as the pass looks at it: the code of a control
\* character, or some code above 31
charCodeAt(c) ==
  CASE c = "\n" -> 10
    [] c = "\r" -> 13
    [] c = "\t" -> 9
    [] c = "BEL" -> 7
    [] OTHER -> 32
IsControl(c) == charCodeAt(c) >= 0 /\ charCodeAt(c) <= 31
\* what the pass pushes for a control character inside a string
Replacement(c) ==
  IF charCodeAt(c) = 10 THEN <<Backslash, "n">>
  ELSE IF charCodeAt(c) = 13 THEN <<Backslash, "r">>
  ELSE IF charCodeAt(c) = 9 THEN <<Backslash, "t">>
  ELSE <<" ">>

\* the loop of the catch block from index i on, with its two flags
RECURSIVE RepairFrom(_, _, _, _)
RepairFrom(raw, i, inString, escape) ==
  IF i > Len(raw) THEN <<>>
  ELSE LET c == raw[i] IN
    IF escape THEN <<c>> \o RepairFrom(raw, i + 1, inString, FALSE)
    ELSE IF c = Backslash THEN <<c>> \o RepairFrom(raw, i + 1, inString, TRUE)
    ELSE IF ~inString THEN <<c>> \o RepairFrom(raw, i + 1, c = Quote, FALSE)
    ELSE IF c = Quote THEN <<c>> \o RepairFrom(raw, i + 1, FALSE, FALSE)
    ELSE IF IsControl(c) THEN Replacement(c) \o RepairFrom(raw, i + 1, TRUE, FALSE)
    ELSE <<c>> \o RepairFrom(raw, i + 1, TRUE, FALSE)

Repair_everywhere(raw) == RepairFrom(raw, 1, TRUE, FALSE)
\* out.join("")
Repair(raw) == RepairFrom(raw, 1, FALSE, FALSE)

\* JSON.parse on the texts of this study, which hold strings and objects of
\* at most one member: {ok, value}, the value written as a sequence of pieces
\* (a tag, then the decoded characters of a string or of a key).
JsonWs == {" ", "\n", "\r", "\t"}
JsonEscapes == {Quote, Backslash, "/", "b", "f", "n", "r", "t"}
EscapeValue(c) ==
  CASE c = "n" -> "\n"
    [] c = "r" -> "\r"
    [] c = "t" -> "\t"
    [] c = "b" -> "BS"
    [] c = "f" -> "FF"
    [] OTHER -> c
SyntaxError == [ok |-> FALSE, next |-> 0, value |-> <<>>]
Parsed(next, value) == [ok |-> TRUE, next |-> next, value |-> value]
Is(s, i, c) == i <= Len(s) /\ s[i] = c
RECURSIVE SkipWs(_, _)
SkipWs(s, i) == IF i <= Len(s) /\ s[i] \in JsonWs THEN SkipWs(s, i + 1) ELSE i
RECURSIVE ParseChars(_, _, _)
ParseChars(s, i, acc) ==
  IF i > Len(s) THEN SyntaxError
  ELSE IF s[i] = Quote THEN Parsed(i + 1, acc)
  ELSE IF s[i] = Backslash
    THEN IF i + 1 <= Len(s) /\ s[i + 1] \in JsonEscapes
           THEN ParseChars(s, i + 2, Append(acc, EscapeValue(s[i + 1])))
           ELSE SyntaxError
  ELSE IF IsControl(s[i]) THEN SyntaxError
  ELSE ParseChars(s, i + 1, Append(acc, s[i]))
ParseString(s, i) == IF Is(s, i, Quote) THEN ParseChars(s, i + 1, <<>>) ELSE SyntaxError
RECURSIVE ParseValue(_, _)
ParseValue(s, i) ==
  IF Is(s, i, Quote)
    THEN LET str == ParseString(s, i)
         IN IF str.ok THEN Parsed(str.next, << <<"string">>, str.value >>) ELSE SyntaxError
  ELSE IF Is(s, i, "{")
    THEN LET j == SkipWs(s, i + 1) IN
         IF Is(s, j, "}") THEN Parsed(j + 1, << <<"object">>, <<"end">> >>)
         ELSE LET key == ParseString(s, j) IN
           IF ~key.ok THEN SyntaxError
           ELSE LET colon == SkipWs(s, key.next) IN
             IF ~Is(s, colon, ":") THEN SyntaxError
             ELSE LET member == ParseValue(s, SkipWs(s, colon + 1)) IN
               IF ~member.ok THEN SyntaxError
               ELSE LET close == SkipWs(s, member.next) IN
                 IF Is(s, close, "}")
                   THEN Parsed(close + 1,
                               << <<"object">>, key.value >> \o member.value \o << <<"end">> >>)
                   ELSE SyntaxError
  ELSE SyntaxError
JSONparse(s) ==
  LET v == ParseValue(s, SkipWs(s, 1))
  IN IF v.ok /\ SkipWs(s, v.next) > Len(s)
       THEN [ok |-> TRUE, value |-> v.value]
       ELSE [ok |-> FALSE, value |-> <<>>]

\* how parseJsonSafe ends: the value it returns or the SyntaxError of the
\* second JSON.parse; `out` is the joined text when the catch block ran
ParseJsonSafe(raw) ==
  LET first == JSONparse(raw) IN
  IF first.ok THEN [kind |-> "value", value |-> first.value, out |-> Null]
  ELSE LET joined == Repair(raw)
           second == JSONparse(joined)
       IN IF second.ok
            THEN [kind |-> "value", value |-> second.value, out |-> Some(joined)]
            ELSE [kind |-> "throw", value |-> <<>>, out |-> Some(joined)]

MaxContentLen == 3
JsonAlphabet == {"n", Backslash, Quote, "\n", "\r", "\t", "BEL"}
RECURSIVE ContentsOfLen(_)
ContentsOfLen(n) ==
  IF n = 0 THEN {<<>>} ELSE {Append(t, c) : t \in ContentsOfLen(n - 1), c \in JsonAlphabet}
Contents == UNION {ContentsOfLen(n) : n \in 0..MaxContentLen}
\* what surrounds the content: nothing, a string, a member's value, a string
\* between white space, a member's key
Frames ==
  { << <<>>, <<>> >>,
    << <<Quote>>, <<Quote>> >>,
    << <<"{", Quote, "k", Quote, ":", Quote>>, <<Quote, "}">> >>,
    << <<" ", "\n", Quote>>, <<Quote, "\n">> >>,
    << <<"{", "\n", Quote>>, <<Quote, ":", "{", "}", "}">> >> }
JsonTexts == {f[1] \o c \o f[2] : f \in Frames, c \in Contents}

parseJsonSafe ==
  /\ IsNull(jsonOutcome)
  /\ jsonOutcome' = Some(ParseJsonSafe(rawText))
  /\ UNCHANGED rawText
  /\ UNCHANGED <<issueText, extracted, searchTerms, limit, articles, scripts, kbSearch,
                 scriptSearch>>
  /\ UNCHANGED <<dashVars, azVars>>

JsonInit ==
  /\ DashboardInit
  /\ stored = Absent
  /\ AnalyzeIdle
  /\ issueText = <<>>
  /\ extracted = Null
  /\ searchTerms = <<>>
  /\ limit = 0
  /\ articles = <<>>
  /\ scripts = <<>>
  /\ kbSearch = Null
  /\ scriptSearch = Null
  /\ rawText \in JsonTexts
  /\ jsonOutcome = Null

JsonNext == parseJsonSafe

SpecJson == JsonInit /\ [][JsonNext]_vars

\* ------------------------------------------------- publishing a draft text
\* handleApprovePublish on its own: a session in which Analyze now has just
\* shown a result with a draft for the first ticket.  analyzeTicket trims
\* the draft and drops a blank one, so the draft is any non-empty text with
\* no white space at either end.
MaxDraftLen == 4
DraftAlphabet == {"Title:", "title:", "Body:", " ", "\n", "X"}
RECURSIVE DraftsOfLen(_)
DraftsOfLen(n) ==
  IF n = 0 THEN {<<>>} ELSE {Append(t, c) : t \in DraftsOfLen(n - 1), c \in DraftAlphabet}
DraftTexts == {d \in UNION {DraftsOfLen(n) : n \in 1..MaxDraftLen} : Trim(d) = d}

PublishInit ==
  /\ phase = "ready"
  /\ pendingHydration = EmptySession
  /\ selectedTicket = allTickets[1]
  /\ isPlaying = FALSE
  /\ \E d \in DraftTexts :
       /\ analysis = Some([ticketId |-> allTickets[1], new_knowledge_draft |-> Some(d),
                           error |-> FALSE, req |-> 1])
       /\ newKnowledgeDraft = Some(d)
  /\ analyzing = FALSE
  /\ publishedArticles = <<>>
  /\ learningLog = GapEvents(allTickets[1], 0)
  /\ sessionLineage = <<>>
  /\ stored = Absent
  /\ now = 0
  /\ inflight = {}
  /\ calls = {}
  /\ audioRef = Null
  /\ batchRunning = FALSE
  /\ batchResult = Null
  /\ batch = Null
  /\ nextReq = 1
  /\ nextCall = 0
  /\ starts = 1
  /\ draftOrigin = Some(allTickets[1])
  /\ appliedMax = 1
  /\ awaiting = FALSE
  /\ hydrations = 1
  /\ AnalyzeIdle
  /\ LibIdle

PublishNext == handleApprovePublish

SpecPublish == PublishInit /\ [][PublishNext]_vars

\* ------------------------------------------------------------ specification
Next ==
  \/ mountEffects
  \/ hydratedRender
  \/ \E t \in TicketIds : selectTicket(t)
  \/ runAnalyzeNow
  \/ \E r \in inflight, res \in Results : runAnalyzeNowResume(r, res)
  \/ playCall
  \/ \E c \in calls, outcome \in {"ok", "notok", "throw"} : ttsSettled(c, outcome)
  \/ stopCall
  \/ \E c \in calls : onCallEnd(c)
  \/ \E r \in inflight, res \in Results : onCallEndResume(r, res)
  \/ handleApprovePublish
  \/ dismissDraft
  \/ runBatchSimulation
  \/ \E r \in inflight, res \in Results : runBatchResume(r, res)
  \/ \E r \in inflight : analyzeRejected(r)
  \/ reload

Spec == Init /\ [][Next]_vars

\* The same system with the one progress assumption the platform gives: a
\* call of the server action that is in flight does not stay in flight for
\* ever; its promise resolves with a result or rejects.
Settles ==
  \E r \in inflight :
    \/ analyzeRejected(r)
    \/ \E res \in Results :
         runAnalyzeNowResume(r, res) \/ onCallEndResume(r, res) \/ runBatchResume(r, res)
SpecLive == Spec /\ WF_vars(Settles)

\* ===================================================================
\* Properties
\* ===================================================================
HasDraft(res) == ~IsNull(res.new_knowledge_draft)
Hydrated == pendingHydration
\* an analysis of Analyze now or of a call end resumes with result res of call r
Resumes(r, res) == runAnalyzeNowResume(r, res) \/ onCallEndResume(r, res)
ApprovesPendingDraft == handleApprovePublish /\ ~IsNull(newKnowledgeDraft)

\* C1: Approve & Publish on a pending draft appends exactly one article,
\* exactly one 'approved' event carrying the new article's id and exactly one
\* lineage row with that same id and Source_Type 'Ticket'; the article count
\* grows by one and no draft is pending afterwards.
C1_ApproveAppendsOneOfEach ==
  [][ApprovesPendingDraft =>
       /\ Len(publishedArticles') = Len(publishedArticles) + 1
       /\ SubSeq(publishedArticles', 1, Len(publishedArticles)) = publishedArticles
       /\ Len(learningLog') = Len(learningLog) + 1
       /\ SubSeq(learningLog', 1, Len(learningLog)) = learningLog
       /\ Last(learningLog').type = "approved"
       /\ Last(learningLog').kbId = Last(publishedArticles').id
       /\ Len(sessionLineage') = Len(sessionLineage) + 1
       /\ SubSeq(sessionLineage', 1, Len(sessionLineage)) = sessionLineage
       /\ Last(sessionLineage').KB_Article_ID = Last(publishedArticles').id
       /\ Last(sessionLineage').Source_Type = "Ticket"
       /\ IsNull(newKnowledgeDraft')]_vars
\* an article was published in this session
C1_Witness ==
  /\ phase = "ready"
  /\ Len(publishedArticles) > Len(Hydrated.published)
  /\ Last(learningLog).type = "approved"
  /\ Last(sessionLineage).KB_Article_ID = Last(publishedArticles).id
  /\ IsNull(newKnowledgeDraft)

\* C2 (as claimed): the lineage row and the article appended by an approval
\* name the ticket whose analysis produced the approved draft.
C2_LineageNamesAnalyzedTicket ==
  [][ApprovesPendingDraft =>
       /\ Last(sessionLineage').Source_ID = Val(draftOrigin)
       /\ Last(publishedArticles').ticketId = Val(draftOrigin)]_vars

\* C3: an analysis of Analyze now or of a call end that completes with a draft
\* appends exactly 'gap_detected' then 'draft_proposed', both tagged with the
\* analysed ticket; one that completes without a draft (every error result
\* among them) appends no event and makes no draft pending.
C3_GapEventsOnDraftOnly ==
  [][\A r \in inflight, res \in Results :
       Resumes(r, res) =>
         IF HasDraft(res)
         THEN /\ Len(learningLog') = Len(learningLog) + 2
              /\ SubSeq(learningLog', 1, Len(learningLog)) = learningLog
              /\ learningLog'[Len(learningLog) + 1].type = "gap_detected"
              /\ learningLog'[Len(learningLog) + 2].type = "draft_proposed"
              /\ learningLog'[Len(learningLog) + 1].ticketId = r.ticketId
              /\ learningLog'[Len(learningLog) + 2].ticketId = r.ticketId
              /\ newKnowledgeDraft' = res.new_knowledge_draft
         ELSE /\ learningLog' = learningLog
              /\ newKnowledgeDraft' = newKnowledgeDraft]_vars
\* a draft is pending right after the two events of its analysis
C3_Witness ==
  /\ ~IsNull(newKnowledgeDraft)
  /\ ~IsNull(analysis)
  /\ Val(analysis).new_knowledge_draft = newKnowledgeDraft
  /\ Len(learningLog) >= 2
  /\ Last(learningLog).type = "draft_proposed"
  /\ Last(learningLog).ticketId = Val(analysis).ticketId
  /\ learningLog[Len(learningLog) - 1].type = "gap_detected"

\* C4: Dismiss appends exactly one 'gap_detected' event labelled as a
\* dismissal and tagged with the selected ticket, clears the pending draft and
\* leaves the published articles and the lineage as they were.
C4_DismissLogsAndClears ==
  [][dismissDraft =>
       /\ Len(learningLog') = Len(learningLog) + 1
       /\ SubSeq(learningLog', 1, Len(learningLog)) = learningLog
       /\ Last(learningLog').type = "gap_detected"
       /\ Last(learningLog').label = "Draft dismissed (not published)"
       /\ Last(learningLog').ticketId = selectedTicket
       /\ IsNull(newKnowledgeDraft')
       /\ publishedArticles' = publishedArticles
       /\ sessionLineage' = sessionLineage]_vars
\* a draft was dismissed
C4_Witness ==
  /\ Len(learningLog) > Len(Hydrated.learning)
  /\ Last(learningLog).label = "Draft dismissed (not published)"
  /\ IsNull(newKnowledgeDraft)

\* C5 (as claimed): every analyzeTicket call in flight was handed all the
\* articles that were published when it was issued.
C5_AnalysesSeePublished ==
  \A r \in inflight : r.learned = Learned(SubSeq(publishedArticles, 1, r.pubLen))

\* C6: nothing cancels or discards an analysis: issuing a call leaves the
\* calls in flight in flight, and the reply of every call is put on display
\* (with its draft) whatever was displayed before, also when a later-started
\* analysis has already been applied.
C6_NoCancellation ==
  /\ [][(runAnalyzeNow \/ \E c \in calls : onCallEnd(c)) => inflight \subseteq inflight']_vars
  /\ [][\A r \in inflight, res \in Results :
          Resumes(r, res) =>
            /\ analysis' = Some(Displayed(r, res))
            /\ HasDraft(res) => newKnowledgeDraft' = res.new_knowledge_draft]_vars
\* the reply of an earlier-started analysis is on display, with its draft
\* pending, after the reply of a later-started one was applied
C6_Witness ==
  /\ ~IsNull(analysis)
  /\ Val(analysis).req < appliedMax
  /\ ~IsNull(newKnowledgeDraft)
  /\ newKnowledgeDraft = Val(analysis).new_knowledge_draft

\* C7 (as claimed): from the selection of a different ticket until an
\* analysis of that ticket completes, no result is displayed and no draft is
\* pending.
C7_SelectionResetsToIdle ==
  awaiting => IsNull(analysis) /\ IsNull(newKnowledgeDraft)

\* C8: the store is written only after a render whose lists are not all
\* empty, with a state that is not empty; a stored non-empty state is never
\* replaced by an empty one (the first render, before hydration, included).
C8_NeverWritesEmpty ==
  /\ [][stored' # stored =>
          /\ Memory' # EmptySession
          /\ stored'.kind = "json"
          /\ StoredSession' # EmptySession]_vars
  /\ [][StoredSession # EmptySession => StoredSession' # EmptySession]_vars
\* the effects of the first render have run on empty lists and the
\* non-empty state of an earlier session is still in the store
C8_Witness ==
  /\ phase = "hydrating"
  /\ Memory = EmptySession
  /\ StoredSession # EmptySession

\* C9: a step that adds an article, an event or a lineage row leaves the
\* store equal to the three lists in memory, unless its write failed (then
\* the store is as before).
C9_StoreEqualsMemoryAfterWrite ==
  [][(phase = "ready" /\ sessionVars' # sessionVars) =>
       \/ stored'.kind = "json" /\ StoredSession' = Memory'
       \/ stored' = stored]_vars
\* records were added in this session and the store holds the lists in memory
C9_Witness ==
  /\ phase = "ready"
  /\ Len(learningLog) > Len(Hydrated.learning)
  /\ Len(sessionLineage) > Len(Hydrated.lineage)
  /\ stored.kind = "json"
  /\ StoredSession = Memory

\* C10: the hydration effect runs once; until its re-render is done no
\* analysis, call or batch has started and no draft is pending; and the
\* re-render replaces only the empty lists of the first render, so no record
\* added in the session is lost to it.
C10_HydrationOnceBeforeMutation ==
  /\ [](hydrations <= 1)
  /\ [](phase # "ready" =>
          /\ inflight = {} /\ calls = {} /\ ~batchRunning /\ IsNull(batch)
          /\ IsNull(newKnowledgeDraft) /\ IsNull(analysis)
          /\ Memory = EmptySession)
  /\ [][hydratedRender => Memory = EmptySession /\ Memory' = Hydrated]_vars
\* hydration is done and the session has added records to the hydrated ones
C10_Witness ==
  /\ phase = "ready"
  /\ hydrations = 1
  /\ Len(Hydrated.learning) > 0
  /\ Len(learningLog) > Len(Hydrated.learning)

\* C11: a restart restores what was stored: when the store holds a state S
\* with three well-formed arrays, the re-render of the hydration effect makes
\* the three lists in memory equal to those of S, and the persist effect it
\* triggers leaves the store holding S.
WellFormed(raw) ==
  raw.kind = "json" /\ raw.published.isArray /\ raw.learning.isArray /\ raw.lineage.isArray
C11_RestartRestoresStored ==
  [][(hydratedRender /\ WellFormed(stored)) =>
       /\ publishedArticles' = stored.published.items
       /\ learningLog' = stored.learning.items
       /\ sessionLineage' = stored.lineage.items
       /\ WellFormed(stored')
       /\ stored'.published.items = stored.published.items
       /\ stored'.learning.items = stored.learning.items
       /\ stored'.lineage.items = stored.lineage.items]_vars
\* after a reload, the lists written by the session before it are back in
\* memory and in the store
C11_Witness ==
  /\ phase = "ready"
  /\ stored \notin StoredAtStart
  /\ WellFormed(stored)
  /\ Memory = Hydrated
  /\ Memory = StoredSession
  /\ Len(publishedArticles) > 0 /\ Len(learningLog) > 0 /\ Len(sessionLineage) > 0

\* C12: once hydrated, every step of the session leaves each of the three
\* lists as it was or longer at the end: the old list is a prefix of the new.
IsPrefix(a, b) == Len(a) <= Len(b) /\ SubSeq(b, 1, Len(a)) = a
C12_ListsAppendOnly ==
  [][(phase = "ready" /\ phase' = "ready") =>
       /\ IsPrefix(publishedArticles, publishedArticles')
       /\ IsPrefix(learningLog, learningLog')
       /\ IsPrefix(sessionLineage, sessionLineage')]_vars
\* the hydrated lists, not empty, are still at the head of longer lists
C12_Witness ==
  /\ phase = "ready"
  /\ Len(Hydrated.published) > 0 /\ Len(Hydrated.learning) > 0 /\ Len(Hydrated.lineage) > 0
  /\ Len(publishedArticles) > Len(Hydrated.published)
  /\ Len(learningLog) > Len(Hydrated.learning) + 1
  /\ Len(sessionLineage) > Len(Hydrated.lineage)
  /\ IsPrefix(Hydrated.published, publishedArticles)
  /\ IsPrefix(Hydrated.learning, learningLog)
  /\ IsPrefix(Hydrated.lineage, sessionLineage)

\* C13 (as claimed): the id allocated by an approval differs from the id of
\* every article already in the published list, whatever the clock reads.
C13_PublishIdIsFresh ==
  [][ApprovesPendingDraft =>
       \A i \in 1..Len(publishedArticles) :
         publishedArticles[i].id # Last(publishedArticles').id]_vars

\* ------------------------------------------------ properties of analyzeTicket
Ended == ~IsNull(azOutcome)
Returned == Ended /\ Val(azOutcome).kind = "return"
result == Val(azOutcome).value
SolveReply == Val(parsed)
\* every derived field of a result is empty
DerivedEmpty(v) ==
  /\ v.new_knowledge_draft = JsNull
  /\ v.compliance_status = "UNKNOWN"
  /\ v.sources_used = <<>>
  /\ v.recommended_resource = Null
  /\ v.qa_score = JsNull
  /\ v.red_flags = <<>>
  /\ v.coaching_tip = JsNull
IsDiagnostic(v) == v.solution.t = "string" /\ v.solution.s # <<>>
\* the result of the fatal path
IsFatal(v) ==
  /\ IsDiagnostic(v)
  /\ v.confidence_score = JsNum(0)
  /\ DerivedEmpty(v)
  /\ ~IsNullish(v.error)

\* C14 (as claimed): when the solve call fails in transport or its reply
\* cannot be parsed, analyze returns (does not throw) the fatal result; and a
\* configured invocation returns a non-null error field in those two cases only.
C14_ErrorIffTransportOrParseFailure ==
  (apiKey /\ Ended) =>
     /\ SolveReply.kind \in {"rejected", "unparsable"} => Returned /\ IsFatal(result)
     /\ (Returned /\ ~IsNullish(result.error)) => SolveReply.kind \in {"rejected", "unparsable"}
\* C14 (amended): the fatal result is returned, and nothing is thrown, when
\* the solve call fails in transport, when its reply cannot be parsed, and
\* when its reply parses to null; a configured invocation returns a non-null
\* error field in those three cases only.
C14_ErrorIffOuterCatch ==
  (apiKey /\ Ended) =>
     /\ Returned
     /\ SolveReply.kind \in {"rejected", "unparsable", "null"} => IsFatal(result)
     /\ ~IsNullish(result.error) => SolveReply.kind \in {"rejected", "unparsable", "null"}
\* the fatal result was returned for a reply that could not be parsed
C14_Witness ==
  /\ apiKey /\ Returned
  /\ SolveReply.kind = "unparsable"
  /\ IsFatal(result)
  /\ llmCalls[1].status = "fulfilled"

\* C15: without an API key analyze returns in its first step, issues no
\* language-model call then or later, and its result has confidence 0, an
\* error field and every derived field empty.
C15_MissingKeyReturnsAtOnce ==
  /\ [](~apiKey => llmCalls = <<>>)
  /\ [][(analyzeTicket /\ ~apiKey) =>
          /\ Returned'
          /\ result'.confidence_score = JsNum(0)
          /\ ~IsNullish(result'.error)
          /\ DerivedEmpty(result')]_vars
\* an invocation without a key has returned
C15_Witness ==
  /\ ~apiKey /\ Returned /\ azPc = "done"
  /\ result.error = JsStr(<<"Missing API key">>)
  /\ llmCalls = <<>>

\* Promise.all rejected, or the quality reply did not parse
Stage2Failed ==
  \/ \E i \in Stage2Indices(llmCalls) : llmCalls[i].status = "rejected"
  \/ /\ Stage2Indices(llmCalls) # {}
     /\ \A i \in Stage2Indices(llmCalls) : llmCalls[i].status = "fulfilled"
     /\ ReplyOf(llmCalls, "qa").qa.kind = "unparsable"

\* C16: once Stage 1 has succeeded the invocation returns a result without
\* an error field whose solution, confidence, draft, recommended resource and
\* sources are those of Stage 1, whatever becomes of the Stage 2 calls
\* (rejected, or a quality reply that does not parse).
C16_Stage2NeverFatal ==
  (Ended /\ apiKey /\ SolveReply.kind = "object") =>
     /\ Returned
     /\ result.error = JsUndefined
     /\ result.solution = SolutionOf(SolveReply.obj)
     /\ result.confidence_score = ConfidenceOf(SolveReply.obj)
     /\ result.new_knowledge_draft = DraftOf(SolveReply.obj)
     /\ result.recommended_resource = ResourceOf(SolveReply.obj)
     /\ result.sources_used = sources_used
\* analyzeTicket returned on the rejection of one Stage 2 call while the
\* other was pending, with a result that has no error and its sources
C16_Witness ==
  /\ Returned /\ Stage2Failed
  /\ \E i \in Stage2Indices(llmCalls) : llmCalls[i].status = "pending"
  /\ result.error = JsUndefined
  /\ Len(result.sources_used) > 1

\* C17 (as claimed): after any Stage 2 failure the result has compliance
\* UNKNOWN, a null qa_score, no red flags and a null coaching tip.
C17_Stage2FailureLeavesChecksAbsent ==
  (Returned /\ Stage2Failed) =>
     /\ result.compliance_status = "UNKNOWN"
     /\ result.qa_score = JsNull
     /\ result.red_flags = <<>>
     /\ result.coaching_tip = JsNull

CountOf(kind) == Cardinality({i \in 1..Len(llmCalls) : llmCalls[i].kind = kind})
\* C18: at most one solve, one compliance and one quality call are issued;
\* the Stage 2 calls appear only after the solve call is fulfilled and its
\* reply has parsed; none is issued when Stage 1 fails; and when Stage 2
\* calls were issued the invocation ends only once all of them are fulfilled
\* or one is rejected.
C18_TwoPhaseCallProtocol ==
  /\ [](/\ CountOf("solve") <= 1 /\ CountOf("compliance") <= 1 /\ CountOf("qa") <= 1
        /\ Len(llmCalls) <= 3)
  /\ [](Stage2Indices(llmCalls) # {} =>
          /\ llmCalls[1].kind = "solve" /\ llmCalls[1].status = "fulfilled"
          /\ ~IsNull(parsed) /\ SolveReply.kind = "object")
  /\ []((~IsNull(parsed) /\ SolveReply.kind # "object") => Stage2Indices(llmCalls) = {})
  /\ [][(~Ended /\ Ended' /\ Stage2Indices(llmCalls') # {}) =>
          \/ \A i \in Stage2Indices(llmCalls') : llmCalls'[i].status = "fulfilled"
          \/ \E i \in Stage2Indices(llmCalls') : llmCalls'[i].status = "rejected"]_vars
\* an invocation returned after its three calls were fulfilled
C18_Witness ==
  /\ Returned
  /\ Len(llmCalls) = 3
  /\ \A i \in 1..3 : llmCalls[i].status = "fulfilled"
  /\ result.compliance_status # "UNKNOWN"

\* C19 (as claimed): the confidence_score of every returned result is a
\* number in [0, 1].
C19_ConfidenceInUnitInterval ==
  Returned =>
     /\ result.confidence_score.t = "number"
     /\ ~result.confidence_score.nan
     /\ 0 <= result.confidence_score.n /\ result.confidence_score.n <= 10

\* C20 (as claimed): a parsed reply whose confidence_score is missing or is
\* not a number yields a confidence_score of 0.5.
C20_ConfidenceDefaultsToHalf ==
  (Returned /\ apiKey /\ SolveReply.kind = "object"
     /\ TypeOf(SolveReply.obj.confidence_score) # "number") =>
     result.confidence_score = JsNum(5)

\* both Stage 2 calls were issued and fulfilled: Promise.all resolved
Stage2Completed ==
  /\ Returned
  /\ Stage2Indices(llmCalls) # {}
  /\ \A i \in Stage2Indices(llmCalls) : llmCalls[i].status = "fulfilled"
ComplianceText == ReplyOf(llmCalls, "compliance").text
QualityReply == ReplyOf(llmCalls, "qa").qa
InRange(v, lo, hi) == v.t = "number" /\ ~v.nan /\ lo <= v.n /\ v.n <= hi

\* C21: the qa_score of every returned result is null or a number in
\* [0, 100]; when the quality reply parsed, a numeric qa_score comes out
\* clamped into [0, 100] and a missing or non-numeric one comes out null.
C21_QaScoreNullOrClamped ==
  /\ Returned => (result.qa_score = JsNull \/ InRange(result.qa_score, 0, 1000))
  /\ (Stage2Completed /\ QualityReply.kind = "object") =>
       LET given == QualityReply.qa_score
       IN IF given.t = "number"
          THEN result.qa_score =
                 JsNum(IF given.n < 0 THEN 0 ELSE IF given.n > 1000 THEN 1000 ELSE given.n)
          ELSE result.qa_score = JsNull
\* a quality reply with qa_score 150 came out as 100
C21_Witness ==
  /\ Stage2Completed /\ QualityReply.kind = "object"
  /\ QualityReply.qa_score = JsNum(1500)
  /\ result.qa_score = JsNum(1000)

\* C22 (as claimed): the returned draft is the parsed new_knowledge_draft
\* trimmed when that is a non-blank string, and null for every other value
\* (missing, null, blank string, number, boolean, object).
C22_DraftOnlyFromNonBlankString ==
  (Returned /\ apiKey /\ SolveReply.kind = "object") =>
     LET given == SolveReply.obj.new_knowledge_draft
     IN IF given.t = "string" /\ Trim(given.s) # <<>>
        THEN result.new_knowledge_draft = JsStr(Trim(given.s))
        ELSE result.new_knowledge_draft = JsNull

\* C23: a returned recommended_resource is non-null only if the parsed one
\* has type exactly 'KB' or 'SCRIPT' and an id that is present; it is null
\* for any other type, a missing type or a missing id; and every returned
\* recommended_resource is null or of kind KB or SCRIPT.
C23_ResourceOnlyKbOrScript ==
  /\ Returned =>
       \/ IsNull(result.recommended_resource)
       \/ Val(result.recommended_resource).type \in {<<"KB">>, <<"SCRIPT">>}
  /\ (Returned /\ apiKey /\ SolveReply.kind = "object") =>
       LET rr == SolveReply.obj.recommended_resource
           accepted == /\ rr.truthy
                       /\ rr.type \in {JsStr(<<"KB">>), JsStr(<<"SCRIPT">>)}
                       /\ ~IsNullish(rr.id)
       IN /\ ~IsNull(result.recommended_resource) => accepted
          /\ ~accepted => IsNull(result.recommended_resource)
\* a SCRIPT resource with a numeric id was accepted, its id made a string
C23_Witness ==
  /\ Returned /\ apiKey /\ SolveReply.kind = "object"
  /\ SolveReply.obj.recommended_resource.type = JsStr(<<"SCRIPT">>)
  /\ SolveReply.obj.recommended_resource.id = JsNum(50)
  /\ ~IsNull(result.recommended_resource)
  /\ Val(result.recommended_resource).id = <<"5">>

\* the letters of UNSAFE, in lower and in upper case
UnsafeLetters ==
  << {"u", "U"}, {"n", "N"}, {"s", "S"}, {"a", "A"}, {"f", "F"}, {"e", "E"} >>
\* text holds the word UNSAFE written in any mix of cases
HoldsUnsafeAnyCase(text) ==
  \E i \in 0..(Len(text) - 6) : \A k \in 1..6 : text[i + k] \in UnsafeLetters[k]

\* C24 (as claimed): when both Stage 2 calls complete, compliance is UNSAFE
\* if the compliance reply contains the literal UNSAFE and SAFE otherwise; a
\* reply holding only lower-case 'unsafe' yields SAFE.
C24_UnsafeOnlyOnLiteral ==
  Stage2Completed =>
     result.compliance_status =
       IF Includes(ComplianceText, <<"U", "N", "S", "A", "F", "E">>) THEN "UNSAFE" ELSE "SAFE"
\* C24 (amended): when both Stage 2 calls complete, compliance is UNSAFE if
\* the compliance reply contains the word UNSAFE in any letter case, and
\* SAFE otherwise.
C24_UnsafeInAnyCase ==
  Stage2Completed =>
     result.compliance_status = IF HoldsUnsafeAnyCase(ComplianceText) THEN "UNSAFE" ELSE "SAFE"
\* a lower-case reply made the result UNSAFE
C24_Witness ==
  /\ Stage2Completed
  /\ ComplianceText = <<"u", "n", "s", "a", "f", "e">>
  /\ result.compliance_status = "UNSAFE"

\* the batch analyze calls outstanding in a set of calls
BatchCalls(calls_) == {r \in calls_ : r.kind = "batch"}

\* C25: at every moment at most one batch analyze call is outstanding, and
\* it is the call of the ticket the loop stands at; a batch call is issued
\* either for the first ticket of the queue when the batch starts, with none
\* outstanding, or for ticket k+1 in the step in which the call for ticket k
\* resolved.
C25_BatchIsSequential ==
  /\ [](Cardinality(BatchCalls(inflight)) <= 1)
  /\ [](\A r \in BatchCalls(inflight) :
          ~IsNull(batch) /\ batchRunning /\ r.ticketId = toRun[Val(batch).idx])
  /\ [][\A q \in BatchCalls(inflight') \ BatchCalls(inflight) :
          \/ BatchCalls(inflight) = {} /\ q.ticketId = toRun[1]
          \/ \E r \in BatchCalls(inflight) \ BatchCalls(inflight'), k \in 1..(Len(toRun) - 1) :
               r.ticketId = toRun[k] /\ q.ticketId = toRun[k + 1]]_vars
\* the call of the second ticket is outstanding, the first one having resolved
C25_Witness ==
  /\ batchRunning /\ ~IsNull(batch)
  /\ Val(batch).idx = 2
  /\ Val(batch).gaps + Val(batch).fromKb = 1
  /\ \E r \in inflight : r.kind = "batch" /\ r.ticketId = toRun[2]

\* ------------------------------------------ properties of the scored search
\* the scores of the rows of a sheet, as the search computes them
ArticleScores == [i \in DOMAIN articles |-> Score(ArticleHaystack(articles[i]), searchTerms)]
ScriptScores == [i \in DOMAIN scripts |-> Score(ScriptHaystack(scripts[i]), searchTerms)]
\* the rows of score >= 1
Matching(scores) == {i \in DOMAIN scores : scores[i] >= 1}
\* the place of row i in the order by descending score, earlier rows first
\* among equals
RankOf(scores, i) ==
  1 + Cardinality({j \in DOMAIN scores : scores[j] > scores[i] \/ (scores[j] = scores[i] /\ j < i)})
\* out is the first lim of the matching rows in that order
IsTopRanked(rows, scores, lim, out) ==
  LET n == IF Cardinality(Matching(scores)) < lim THEN Cardinality(Matching(scores)) ELSE lim
  IN /\ Len(out) = n
     /\ Len(out) <= lim
     /\ \A i \in Matching(scores) : RankOf(scores, i) <= n => out[RankOf(scores, i)] = rows[i]
     /\ \A k \in DOMAIN out : \E i \in Matching(scores) : rows[i] = out[k]

\* C26: for every term list, sheet and limit, each search returns exactly
\* the first `limit` of the rows of score >= 1, ordered by score descending
\* with rows of equal score in sheet order; it returns no row of score 0
\* and never more than `limit` rows.
C26_SearchReturnsTopRanked ==
  /\ ~IsNull(kbSearch) => IsTopRanked(articles, ArticleScores, limit, Val(kbSearch).returned)
  /\ ~IsNull(scriptSearch) => IsTopRanked(scripts, ScriptScores, limit, Val(scriptSearch).returned)
\* three rows matched, the best one last in the sheet and the other two
\* tied; with limit 2 the best and the earlier of the tied ones came back
C26_Witness ==
  /\ ~IsNull(kbSearch)
  /\ Len(articles) = 3 /\ limit = 2
  /\ ArticleScores = <<1, 1, 2>>
  /\ Val(kbSearch).returned = <<articles[3], articles[1]>>

\* the terms of a list that a haystack holds, each counted once
DistinctTermsIn(combined, terms) == Cardinality({t \in Range(terms) : Includes(combined, t)})

WordRuns(text) ==
  {run \in (1..Len(text)) \X (1..Len(text)) :
     /\ run[1] <= run[2]
     /\ \A i \in run[1]..run[2] : IsWordChar(text[i])
     /\ (run[1] = 1 \/ ~IsWordChar(text[run[1] - 1]))
     /\ (run[2] = Len(text) \/ ~IsWordChar(text[run[2] + 1]))}
WordAt(text, run) == ToLowerCase(SubSeq(text, run[1], run[2]))
\* where a word first occurs in a text
FirstAt(text, w) ==
  CHOOSE a \in 1..Len(text) :
    /\ \E run \in WordRuns(text) : run[1] = a /\ WordAt(text, run) = w
    /\ \A run \in WordRuns(text) : WordAt(text, run) = w => a <= run[1]

Succeeded == Returned /\ apiKey /\ SolveReply.kind = "object"
\* the ids of the rows of a sheet, of the seed entries of sources_used, and
\* of the seed section of the context
RowIds(rows) == [i \in DOMAIN rows |-> rows[i].KB_Article_ID]
SeedSourceIds(sources) ==
  LET seeds == SelectSeq(sources, LAMBDA e : e.source = "seed")
  IN [i \in DOMAIN seeds |-> seeds[i].id]
SectionsOf(heading) == SelectSeq(Val(prompt).context, LAMBDA sec : sec.heading = heading)
ContextSeedIds ==
  IF SectionsOf("Seed knowledge base") = <<>> THEN <<>>
  ELSE LET entries == SectionsOf("Seed knowledge base")[1].entries
       IN [i \in DOMAIN entries |-> entries[i].id]
FirstRows(rows, n) == [i \in 1..(IF Len(rows) < n THEN Len(rows) ELSE n) |-> rows[i]]

\* C28: when the search found no article, the seed articles of the context
\* and of sources_used are the first 5 rows of the sheet in sheet order, or
\* all of them if there are fewer; when it found some, they are the rows
\* found; and when the script search found nothing the prompt lists no
\* script and the seed articles are what they are without it.
C28_FallbackIsSheetHead ==
  LET expected == IF relevantArticles = <<>> THEN FirstRows(allArticles, 5) ELSE relevantArticles
  IN /\ ~IsNull(prompt) =>
          /\ ContextSeedIds = RowIds(expected)
          /\ Len(SectionsOf("Seed knowledge base")) <= 1
          /\ relevantScripts = <<>> => Val(prompt).scripts = <<>>
          /\ Len(Val(prompt).scripts) = Len(relevantScripts)
     /\ Succeeded => SeedSourceIds(result.sources_used) = RowIds(expected)
\* no article and no script was found in a sheet of three rows: the three
\* rows are the seed articles of the context and of the result
C28_Witness ==
  /\ Succeeded
  /\ relevantArticles = <<>> /\ relevantScripts = <<>>
  /\ Len(allArticles) = 3
  /\ ContextSeedIds = <<SeedId(1), SeedId(2), SeedId(3)>>
  /\ SeedSourceIds(result.sources_used) = <<SeedId(1), SeedId(2), SeedId(3)>>

\* C29: in every successful result sources_used is one entry per learned
\* article, in input order and marked learned, followed by one entry per
\* seed article of the context, in context order and marked seed; its
\* length is the number of learned articles plus that of the seed articles.
C29_SourcesLearnedThenSeed ==
  Succeeded =>
     LET sources == result.sources_used
         nLearned == Len(learnedArticles)
     IN /\ Len(sources) = nLearned + Len(ContextSeedIds)
        /\ \A i \in 1..nLearned :
             /\ sources[i].source = "learned"
             /\ sources[i].id = learnedArticles[i].id
             /\ sources[i].ticketId = Some(learnedArticles[i].ticketId)
        /\ \A i \in 1..Len(ContextSeedIds) :
             /\ sources[nLearned + i].source = "seed"
             /\ sources[nLearned + i].id = ContextSeedIds[i]
        /\ \A i, j \in DOMAIN sources :
             (sources[i].source = "seed" /\ sources[j].source = "learned") => j < i
\* two learned articles and two scored articles: four entries in that order
C29_Witness ==
  /\ Succeeded
  /\ Len(learnedArticles) = 2 /\ Len(relevantArticles) = 2
  /\ Len(result.sources_used) = 4
  /\ result.sources_used[2].source = "learned" /\ result.sources_used[2].id = KbId(1)
  /\ result.sources_used[3].source = "seed" /\ result.sources_used[3].id = SeedId(3)

\* C33 (as claimed): when the article search and the script search both
\* found nothing, the returned result has a non-null new_knowledge_draft and
\* a confidence_score in [0.3, 0.7], whatever the language model replied.
C33_GapYieldsDraftAndMidConfidence ==
  (Returned /\ apiKey /\ relevantArticles = <<>> /\ relevantScripts = <<>>) =>
     /\ result.new_knowledge_draft # JsNull
     /\ InRange(result.confidence_score, 3, 7)

\* ------------------------------------------------------------ parseJsonSafe
JsonDone == ~IsNull(jsonOutcome)
Repaired == JsonDone /\ ~IsNull(Val(jsonOutcome).out)
\* the number of backslashes in a row that end at position i
RECURSIVE BackslashRun(_, _)
BackslashRun(s, i) == IF i >= 1 /\ s[i] = Backslash THEN 1 + BackslashRun(s, i - 1) ELSE 0
\* the character at i follows an escape backslash
EscapedAt(s, i) == BackslashRun(s, i - 1) % 2 = 1
\* the character at i lies after an opening quote and before its closing one
InStringAt(s, i) ==
  Cardinality({j \in 1..(i - 1) : s[j] = Quote /\ ~EscapedAt(s, j)}) % 2 = 1
RawControlAt(s, i) == IsControl(s[i]) /\ InStringAt(s, i) /\ ~EscapedAt(s, i)
EscapeOf(c) ==
  CASE c = "\n" -> <<Backslash, "n">>
    [] c = "\r" -> <<Backslash, "r">>
    [] c = "\t" -> <<Backslash, "t">>
    [] OTHER -> <<" ">>
RECURSIVE Rewritten(_, _)
Rewritten(s, i) ==
  IF i > Len(s) THEN <<>>
  ELSE (IF RawControlAt(s, i) THEN EscapeOf(s[i]) ELSE <<s[i]>>) \o Rewritten(s, i + 1)
\* the text with every raw newline inside a string literal escaped
RECURSIVE NewlinesEscaped(_, _)
NewlinesEscaped(s, i) ==
  IF i > Len(s) THEN <<>>
  ELSE (IF s[i] = "\n" /\ InStringAt(s, i) THEN <<Backslash, "n">> ELSE <<s[i]>>)
         \o NewlinesEscaped(s, i + 1)

\* C31 (as claimed): a strictly valid text comes back as its strict parse,
\* unrepaired; a text that is valid once the raw newlines inside its string
\* literals are escaped comes back as the strict parse of that escaped text.
C31_SameValueAsStrictParse ==
  JsonDone =>
    /\ JSONparse(rawText).ok =>
         /\ Val(jsonOutcome).kind = "value"
         /\ Val(jsonOutcome).value = JSONparse(rawText).value
         /\ IsNull(Val(jsonOutcome).out)
    /\ JSONparse(NewlinesEscaped(rawText, 1)).ok =>
         /\ Val(jsonOutcome).kind = "value"
         /\ Val(jsonOutcome).value = JSONparse(NewlinesEscaped(rawText, 1)).value

\* C35: the repair pass rewrites exactly the control characters that are
\* inside a string literal and not behind an escape backslash (newline,
\* carriage return and tab to their two-character escapes, any other to one
\* space), copies every other character, and maps its own output to itself.
C35_RepairRewritesRawControlsOnce ==
  Repaired =>
    /\ Val(Val(jsonOutcome).out) = Rewritten(rawText, 1)
    /\ Repair(Val(Val(jsonOutcome).out)) = Val(Val(jsonOutcome).out)
C35_Witness ==
  /\ Repaired
  /\ rawText = <<" ", "\n", Quote, "\n", Backslash, "\t", Quote, "\n">>
  /\ Val(Val(jsonOutcome).out) =
       <<" ", "\n", Quote, Backslash, "n", Backslash, "\t", Quote, "\n">>

\* ------------------------------------------------------ the parts of a draft
HasTitleMarker(d) == \E i \in 1..Len(d) : IsTitleMarker(d[i])
HasBodyMarker(d) == \E i \in 1..Len(d) : IsBodyMarker(d[i])
FirstWhere(d, Is_(_)) == CHOOSE i \in 1..Len(d) : Is_(d[i]) /\ \A j \in 1..(i - 1) : ~Is_(d[j])
\* what follows position i up to the end of its line
RestOfLine(d, i) ==
  LET nl == {k \in (i + 1)..Len(d) : d[k] = "\n"}
  IN SubSeq(d, i + 1, IF nl = {} THEN Len(d) ELSE (CHOOSE k \in nl : \A m \in nl : k <= m) - 1)
TitleOfDraft(d) ==
  IF HasTitleMarker(d) THEN Trim(RestOfLine(d, FirstWhere(d, IsTitleMarker))) ELSE PlaceholderTitle
BodyOfDraft(d) ==
  IF HasBodyMarker(d) THEN Trim(SubSeq(d, FirstWhere(d, IsBodyMarker) + 1, Len(d))) ELSE d
Publishes ==
  ~IsNull(newKnowledgeDraft) /\ Len(publishedArticles') = Len(publishedArticles) + 1

\* C32 (as claimed): the published title is the trimmed rest of the line of
\* the first Title: marker, or the placeholder when the draft has no such
\* marker; the body is the trimmed text after the first Body: marker, or
\* the whole draft when it has none; the lineage snippet is the first 200
\* characters of that body.
C32_DraftSplitByMarkers ==
  [][Publishes =>
       LET d == Val(newKnowledgeDraft) IN
       /\ Last(publishedArticles').title = TitleOfDraft(d)
       /\ Last(publishedArticles').body = BodyOfDraft(d)
       /\ Last(sessionLineage').Evidence_Snippet = Slice0(BodyOfDraft(d), SnippetLen)]_vars

\* ------------------------------------------------ who creates the records
BatchSteps ==
  \/ runBatchSimulation
  \/ \E r \in inflight, res \in Results : runBatchResume(r, res)
AnalysisSteps ==
  \/ runAnalyzeNow
  \/ \E c \in calls : onCallEnd(c)
  \/ \E r \in inflight, res \in Results : Resumes(r, res)
CallSteps ==
  \/ playCall
  \/ stopCall
  \/ \E c \in calls, outcome \in {"ok", "notok", "throw"} : ttsSettled(c, outcome)

\* C34: articles and lineage rows are created only by Approve & Publish on a
\* pending draft (the lists otherwise change only when the stored session is
\* loaded or the page is left): the start and the completion of an analysis,
\* a ticket selection, playing or stopping a call and the batch simulation
\* leave both lists as they are; the batch simulation also leaves the
\* learning log, the displayed analysis and the pending draft as they are;
\* Approve & Publish without a pending draft changes nothing at all.
C34_OnlyApproveCreatesRecords ==
  /\ [][(AnalysisSteps \/ CallSteps \/ BatchSteps \/ \E t \in TicketIds : selectTicket(t)) =>
          /\ publishedArticles' = publishedArticles
          /\ sessionLineage' = sessionLineage]_vars
  /\ [][BatchSteps =>
          /\ learningLog' = learningLog
          /\ analysis' = analysis
          /\ newKnowledgeDraft' = newKnowledgeDraft]_vars
  /\ [][(handleApprovePublish /\ IsNull(newKnowledgeDraft)) => UNCHANGED vars]_vars
  /\ [][(publishedArticles' # publishedArticles \/ sessionLineage' # sessionLineage) =>
          ApprovesPendingDraft \/ hydratedRender \/ reload]_vars
\* a batch simulation has run to its summary beside a pending draft, a
\* displayed analysis and a published article
C34_Witness ==
  /\ ~IsNull(batchResult)
  /\ ~IsNull(newKnowledgeDraft)
  /\ ~IsNull(analysis)
  /\ Len(publishedArticles) = 1
  /\ Len(sessionLineage) = 1

\* C36 (as claimed): whenever a draft is pending, an analysis result is on
\* display, the pending draft is that result's new_knowledge_draft, and the
\* result is of an analysis of the selected ticket.
C36_PendingDraftIsOfDisplayedAnalysis ==
  ~IsNull(newKnowledgeDraft) =>
     /\ ~IsNull(analysis)
     /\ Val(analysis).new_knowledge_draft = newKnowledgeDraft
     /\ Val(analysis).ticketId = selectedTicket

\* the analyses of Analyze now and of a call's end that are in flight
AnalysesInFlight == {r \in inflight : r.kind \in {"now", "callEnd"}}

\* C38 (as claimed): the analyzing flag is set in every state in which an
\* analysis of Analyze now or of a call's end is in flight, and no two such
\* analyses are ever in flight together.
C38_AnalyzingWhileInFlight ==
  /\ AnalysesInFlight # {} => analyzing
  /\ Cardinality(AnalysesInFlight) <= 1

\* ------------------------------------------------- the three lists together
EventsOfType(type) == SelectSeq(learningLog, LAMBDA e : e.type = type)

\* C39: the published articles, the lineage rows and the 'approved' events
\* are equally many, and the i-th of each carry the same article id and the
\* same ticket id (every state the store can hold at the start is empty or
\* was written by a session).
C39_ListsStayAligned ==
  LET approved == EventsOfType("approved") IN
  /\ Len(sessionLineage) = Len(publishedArticles)
  /\ Len(approved) = Len(publishedArticles)
  /\ \A i \in 1..Len(publishedArticles) :
       /\ sessionLineage[i].KB_Article_ID = publishedArticles[i].id
       /\ approved[i].kbId = publishedArticles[i].id
       /\ sessionLineage[i].Source_ID = publishedArticles[i].ticketId
       /\ approved[i].ticketId = publishedArticles[i].ticketId
\* an article of this session stands after one restored from the store
C39_Witness ==
  /\ phase = "ready"
  /\ Len(Hydrated.published) = 1
  /\ Len(publishedArticles) = 2
  /\ Len(sessionLineage) = 2
  /\ Len(EventsOfType("approved")) = 2

C37_AnalyzingEventuallyCleared == analyzing ~> ~analyzing

====
